---- MODULE Spec2Model ----
(***************************************************************************)
(* Paper-execution matching engine (bot/paper_trader.py) and risk manager  *)
(* (risk/risk_manager.py, risk/kelly.py) of polymarket_bot.                *)
(*                                                                         *)
(* Python floats are modelled as exact rationals <<n, d>> in lowest terms  *)
(* with d > 0, so that equalities the code satisfies "within floating      *)
(* tolerance" are equalities of the model.  Where the rounding of the      *)
(* float operations matters, mant_dig > 0 makes every sum, product and     *)
(* quotient round to that many significant bits, to nearest, ties to even. *)
(***************************************************************************)
EXTENDS Integers, Sequences, FiniteSets, TLC

VARIABLE
    mant_dig             \* sys.float_info.mant_dig; 0: arithmetic on the reals

(***************************************************************************)
(* Rational arithmetic                                                     *)
(***************************************************************************)
Abs(x) == IF x < 0 THEN -x ELSE x

RECURSIVE GCD(_, _)
GCD(a, b) == IF b = 0 THEN a ELSE GCD(b, a % b)

Norm(n, d) ==
    LET s == IF d < 0 THEN -1 ELSE 1
        g == GCD(Abs(n), Abs(d))
    IN  <<(s * n) \div g, (s * d) \div g>>

R(n, d) == Norm(n, d)
Zero == <<0, 1>>
One == <<1, 1>>
RInt(n) == <<n, 1>>

\* n / d > 0, scaled by 2^e, rounded to p significant bits.
RECURSIVE FlScaled(_, _, _, _)
FlScaled(n, d, e, p) ==
    IF n \div 2^p >= d
    THEN IF n % 2 = 0 THEN FlScaled(n \div 2, d, e + 1, p) ELSE FlScaled(n, 2 * d, e + 1, p)
    ELSE IF n \div 2^(p - 1) < d
    THEN IF d % 2 = 0 THEN FlScaled(n, d \div 2, e - 1, p) ELSE FlScaled(2 * n, d, e - 1, p)
    ELSE LET q == n \div d
             r == n % d
             m == IF 2 * r > d \/ (2 * r = d /\ q % 2 = 1) THEN q + 1 ELSE q
         IN  IF e >= 0 THEN R(m * 2^e, 1) ELSE R(m, 2^(-e))

\* The float nearest to x.
Fl(x) ==
    IF mant_dig = 0 \/ x[1] = 0 THEN x
    ELSE LET y == FlScaled(Abs(x[1]), x[2], 0, mant_dig)
         IN  IF x[1] < 0 THEN <<-y[1], y[2]>> ELSE y

\* Sums and products cancel common factors before multiplying, which keeps the
\* intermediate integers small.
RAdd(a, b) ==
    LET g == GCD(a[2], b[2])
    IN  Fl(Norm(a[1] * (b[2] \div g) + b[1] * (a[2] \div g), (a[2] \div g) * b[2]))
RMul(a, b) ==
    LET g1 == GCD(Abs(a[1]), b[2])
        g2 == GCD(Abs(b[1]), a[2])
    IN  Fl(Norm((a[1] \div g1) * (b[1] \div g2), (a[2] \div g2) * (b[2] \div g1)))
RSub(a, b) == RAdd(a, <<-b[1], b[2]>>)
RDiv(a, b) == IF b[1] < 0 THEN RMul(a, <<-b[2], -b[1]>>) ELSE RMul(a, <<b[2], b[1]>>)
RNeg(a) == <<-a[1], a[2]>>
RAbs(a) == <<Abs(a[1]), a[2]>>
RLt(a, b) ==
    LET g == GCD(a[2], b[2]) IN a[1] * (b[2] \div g) < b[1] * (a[2] \div g)
RLe(a, b) ==
    LET g == GCD(a[2], b[2]) IN a[1] * (b[2] \div g) <= b[1] * (a[2] \div g)
RGt(a, b) == RLt(b, a)
RGe(a, b) == RLe(b, a)
RMin(a, b) == IF RLe(a, b) THEN a ELSE b

(***************************************************************************)
(* State                                                                   *)
(***************************************************************************)
VARIABLES
    \* RiskManager (risk/risk_manager.py)
    settings,            \* the frozen Settings the manager was built with
    kill_switch,         \* threading.Event: is_set()
    starting_balance,
    peak_balance,
    current_balance,
    daily_pnl,
    consecutive_losses,
    trade_log,           \* deque(maxlen=1000) of recorded P&L
    riskCall,            \* the last RiskManager call: name, return value, kill switch on entry
    trades_at_reset,     \* history: len(trade_log) when reset_daily was last called
    \* PaperTrader (bot/paper_trader.py)
    balance,             \* _balance
    initial_balance,     \* _initial_balance
    slippage_bps,        \* _slippage_bps
    order_ttl,           \* _order_ttl
    positions,           \* _positions: token_id -> Position
    resting_orders,      \* _resting_orders
    filled_orders,       \* _filled_orders
    total_realized_pnl,  \* _total_realized_pnl
    now,                 \* time.time()
    executes,            \* number of execute calls so far; the next order id is drawn from it
    buys,                \* history: per token, the Buy fills applied since construction
    paperCall,           \* the last PaperTrader call: inputs, returned fills, _try_fill attempts
    \* risk/kelly.py, called on its own
    kellyIn,             \* the arguments held fixed: bankroll, win_prob, odds
    kellyCall,           \* the last call: the arguments that vary and the value returned
    kellyPrev,           \* the call before it
    \* callers of the core
    ptc,                 \* a thread inside RiskManager.pre_trade_check: the line it is at
    bot                  \* Orchestrator (bot/orchestrator.py): position in run/_tick, locals

riskVars == <<settings, kill_switch, starting_balance, peak_balance, current_balance,
              daily_pnl, consecutive_losses, trade_log, riskCall, trades_at_reset>>

paperVars == <<balance, initial_balance, slippage_bps, order_ttl, positions, resting_orders,
               filled_orders, total_realized_pnl, now, executes, buys, paperCall>>

sizerVars == <<kellyIn, kellyCall, kellyPrev>>

callerVars == <<ptc, bot>>

restVars == <<sizerVars, callerVars, mant_dig>>

vars == <<riskVars, paperVars, restVars>>

(***************************************************************************)
(* Inputs and configuration of the risk manager                            *)
(***************************************************************************)
\* Settings(...) instances the manager is built with: the first carries the
\* defaults of config/settings.py with the dollar limits scaled to the
\* balances below, so that the drawdown trigger is the first to fire; the
\* second lets the streak and the daily-loss trigger fire; the last has a
\* daily loss limit of 0.
DefaultSettings ==
    [max_drawdown_pct |-> R(1, 10), daily_loss_limit_usd |-> RInt(100),
     max_consecutive_losses |-> 5, max_position_size_usd |-> RInt(50),
     kelly_fraction |-> R(1, 4), max_kelly_fraction |-> R(1, 2)]
SettingsSet ==
    { DefaultSettings,
      [max_drawdown_pct |-> R(1, 2), daily_loss_limit_usd |-> RInt(15),
       max_consecutive_losses |-> 2, max_position_size_usd |-> RInt(50),
       kelly_fraction |-> R(1, 4), max_kelly_fraction |-> R(1, 2)],
      [max_drawdown_pct |-> R(1, 2), daily_loss_limit_usd |-> Zero,
       max_consecutive_losses |-> 5, max_position_size_usd |-> RInt(50),
       kelly_fraction |-> R(1, 4), max_kelly_fraction |-> R(1, 2)] }

BalanceInputs == {RInt(100), RInt(90)}
PnlInputs == {RInt(-5), RInt(0), RInt(10)}

\* Signal (strategies/base.py): the fields the core reads.
Tokens == {"tok1", "tok2"}
Sides == {"BUY", "SELL"}
Signal(t, sd, c, p, m) ==
    [token_id |-> t, side |-> sd, confidence |-> c, suggested_price |-> p, max_size |-> m]
\* One signal that sizes to a positive amount, one per way of getting 0 (no
\* edge, price 0, price 1, max_size over the position limit), and one whose
\* scaled Kelly fraction is over max_kelly_fraction.
RiskSignals ==
    { Signal("tok1", "BUY", R(3, 5), R(1, 2), RInt(50)),
      Signal("tok1", "BUY", R(3, 10), R(1, 2), RInt(50)),
      Signal("tok1", "BUY", R(3, 5), Zero, RInt(50)),
      Signal("tok1", "BUY", R(3, 5), One, RInt(50)),
      Signal("tok1", "BUY", R(3, 5), R(1, 2), RInt(60)),
      Signal("tok1", "BUY", R(9, 10), R(1, 5), RInt(50)) }

\* pre_trade_check reads max_size only: one signal within the position limit
\* and one over it.
PreTradeSignals ==
    { sig \in RiskSignals : sig.confidence = R(3, 5) /\ sig.suggested_price = R(1, 2) }

TradeLogMaxLen == 1000
MaxTrades == 3

(***************************************************************************)
(* risk/kelly.py                                                           *)
(***************************************************************************)
kelly_criterion_times_odds(win_prob, odds) ==
    IF RLe(odds, Zero) \/ RLe(win_prob, Zero) \/ RGe(win_prob, One)
    THEN Zero
    ELSE RMul(RSub(RMul(odds, win_prob), RSub(One, win_prob)), odds)

kelly_criterion(win_prob, odds) ==
    IF RLe(odds, Zero) \/ RLe(win_prob, Zero) \/ RGe(win_prob, One)
    THEN Zero
    ELSE RDiv(RSub(RMul(odds, win_prob), RSub(One, win_prob)), odds)

position_size_divides(bankroll, win_prob, odds, kelly_fraction, max_kelly, max_position_usd) ==
    LET raw == kelly_criterion(win_prob, odds)
        adjusted == RDiv(raw, kelly_fraction)
        capped == RMin(adjusted, max_kelly)
        dollar_size == RMul(bankroll, capped)
    IN  IF RLe(raw, Zero) THEN Zero ELSE RMin(dollar_size, max_position_usd)

position_size(bankroll, win_prob, odds, kelly_fraction, max_kelly, max_position_usd) ==
    LET raw == kelly_criterion(win_prob, odds)
        adjusted == RMul(raw, kelly_fraction)
        capped == RMin(adjusted, max_kelly)
        dollar_size == RMul(bankroll, capped)
    IN  IF RLe(raw, Zero) THEN Zero ELSE RMin(dollar_size, max_position_usd)

\* The arguments the two functions are called with on their own.
KellyBankrolls == {RInt(-100), Zero, RInt(100)}
KellyProbs == {Zero, R(3, 10), R(3, 5), One}
KellyOdds == {RInt(-1), Zero, R(1, 2), One, RInt(2)}
KellyFractions == {R(1, 4), R(1, 2), One}
MaxKellys == {R(1, 10), R(1, 2)}
MaxPositions == {RInt(10), RInt(50)}

KellyCall(op, odds, kelly_fraction, max_kelly, max_position_usd, result) ==
    [op |-> op, odds |-> odds, kelly_fraction |-> kelly_fraction, max_kelly |-> max_kelly,
     max_position_usd |-> max_position_usd, result |-> result]
NoKellyCall == KellyCall("init", Zero, Zero, Zero, Zero, Zero)

KellyInit ==
    /\ kellyIn \in [bankroll : KellyBankrolls, win_prob : KellyProbs, odds : KellyOdds]
    /\ kellyCall = NoKellyCall
    /\ kellyPrev = NoKellyCall

\* kelly_criterion(win_prob, odds) at the fixed win_prob.
KellyCriterion(odds) ==
    /\ kellyCall' = KellyCall("kelly_criterion", odds, Zero, Zero, Zero,
                              kelly_criterion(kellyIn.win_prob, odds))
    /\ kellyPrev' = kellyCall
    /\ UNCHANGED kellyIn

\* position_size(...) at the fixed bankroll, win_prob and odds.
PositionSize(kelly_fraction, max_kelly, max_position_usd) ==
    /\ kellyCall' = KellyCall("position_size", kellyIn.odds, kelly_fraction, max_kelly,
                              max_position_usd,
                              position_size(kellyIn.bankroll, kellyIn.win_prob, kellyIn.odds,
                                            kelly_fraction, max_kelly, max_position_usd))
    /\ kellyPrev' = kellyCall
    /\ UNCHANGED kellyIn

\* Where the functions are not called on their own.
SizerIdle ==
    /\ kellyIn = [bankroll |-> Zero, win_prob |-> Zero, odds |-> Zero]
    /\ kellyCall = NoKellyCall
    /\ kellyPrev = NoKellyCall

(***************************************************************************)
(* risk/risk_manager.py                                                    *)
(***************************************************************************)
\* threading.Event.set() on the kill switch: the value of is_set() afterwards.
trigger_kill_switch(k) == TRUE

daily_loss_safe_strict(daily, st) ==
    ~(RGt(RAbs(daily), Zero) /\ RLt(daily, RNeg(st.daily_loss_limit_usd)))

drawdown_safe_strict(peak, cur, st) ==
    IF RLe(peak, Zero) THEN TRUE
    ELSE ~RGt(RDiv(RSub(peak, cur), peak), st.max_drawdown_pct)

\* The three trigger conditions: TRUE when the check returns True ("safe").
drawdown_safe(peak, cur, st) ==
    IF RLe(peak, Zero) THEN TRUE
    ELSE ~RGe(RDiv(RSub(peak, cur), peak), st.max_drawdown_pct)

daily_loss_safe(daily, st) ==
    ~(RGt(RAbs(daily), Zero) /\ RLe(daily, RNeg(st.daily_loss_limit_usd)))

consecutive_losses_safe(losses, st) ==
    ~(losses >= st.max_consecutive_losses)

\* A check's effect on the kill switch.
AfterCheck(k, safe) == IF safe THEN k ELSE trigger_kill_switch(k)

\* The signal of a call that takes none.
NoSignal == Signal("", "", Zero, Zero, Zero)
RiskCallOn(op, ok, size, was, signal) ==
    [op |-> op, ok |-> ok, size |-> size, was_killed |-> was, signal |-> signal]
RiskCall(op, ok, size, was) == RiskCallOn(op, ok, size, was, NoSignal)

RiskInit ==
    /\ settings \in SettingsSet
    /\ kill_switch = FALSE
    /\ starting_balance = Zero
    /\ peak_balance = Zero
    /\ current_balance = Zero
    /\ daily_pnl = Zero
    /\ consecutive_losses = 0
    /\ trade_log = <<>>
    /\ riskCall = RiskCall("init", TRUE, Zero, FALSE)
    /\ trades_at_reset = 0

\* get_risk_report()["drawdown_pct"]
drawdown_pct(peak, cur) ==
    IF RGt(peak, Zero) THEN RDiv(RSub(peak, cur), peak) ELSE Zero

TriggerKillSwitch ==
    /\ kill_switch' = trigger_kill_switch(kill_switch)
    /\ riskCall' = RiskCall("trigger_kill_switch", TRUE, Zero, kill_switch)
    /\ UNCHANGED <<trades_at_reset, settings, starting_balance, peak_balance, current_balance, daily_pnl,
                   consecutive_losses, trade_log>>

SetBalance_resets_peak(bal) ==
    /\ current_balance' = bal
    /\ starting_balance' = IF starting_balance = Zero THEN bal ELSE starting_balance
    /\ peak_balance' = bal
    /\ riskCall' = RiskCall("set_balance", TRUE, Zero, kill_switch)
    /\ UNCHANGED <<trades_at_reset, settings, kill_switch, daily_pnl, consecutive_losses, trade_log>>

SetBalance(bal) ==
    /\ current_balance' = bal
    /\ starting_balance' = IF starting_balance = Zero THEN bal ELSE starting_balance
    /\ peak_balance' = IF RGt(bal, peak_balance) THEN bal ELSE peak_balance
    /\ riskCall' = RiskCall("set_balance", TRUE, Zero, kill_switch)
    /\ UNCHANGED <<trades_at_reset, settings, kill_switch, daily_pnl, consecutive_losses, trade_log>>

CheckDrawdown ==
    LET safe == drawdown_safe(peak_balance, current_balance, settings)
    IN  /\ kill_switch' = AfterCheck(kill_switch, safe)
        /\ riskCall' = RiskCall("check_drawdown", safe, Zero, kill_switch)
        /\ UNCHANGED <<trades_at_reset, settings, starting_balance, peak_balance, current_balance,
                       daily_pnl, consecutive_losses, trade_log>>

CheckDailyLoss ==
    LET safe == daily_loss_safe(daily_pnl, settings)
    IN  /\ kill_switch' = AfterCheck(kill_switch, safe)
        /\ riskCall' = RiskCall("check_daily_loss", safe, Zero, kill_switch)
        /\ UNCHANGED <<trades_at_reset, settings, starting_balance, peak_balance, current_balance,
                       daily_pnl, consecutive_losses, trade_log>>

CheckConsecutiveLosses ==
    LET safe == consecutive_losses_safe(consecutive_losses, settings)
    IN  /\ kill_switch' = AfterCheck(kill_switch, safe)
        /\ riskCall' = RiskCall("check_consecutive_losses", safe, Zero, kill_switch)
        /\ UNCHANGED <<trades_at_reset, settings, starting_balance, peak_balance, current_balance,
                       daily_pnl, consecutive_losses, trade_log>>

\* pre_trade_check(signal) as [ok, kill]: its return value and the kill switch
\* afterwards, from the kill switch k and the balances and counters it reads.
pre_trade_check_unguarded(k, peak, cur, daily, losses, st, signal) ==
    IF ~drawdown_safe(peak, cur, st)
    THEN [ok |-> FALSE, kill |-> trigger_kill_switch(k)]
    ELSE IF ~daily_loss_safe(daily, st)
    THEN [ok |-> FALSE, kill |-> trigger_kill_switch(k)]
    ELSE IF ~consecutive_losses_safe(losses, st)
    THEN [ok |-> FALSE, kill |-> trigger_kill_switch(k)]
    ELSE IF RGt(signal.max_size, st.max_position_size_usd)
    THEN [ok |-> FALSE, kill |-> k]
    ELSE [ok |-> TRUE, kill |-> k]

pre_trade_check(k, peak, cur, daily, losses, st, signal) ==
    IF k
    THEN [ok |-> FALSE, kill |-> k]
    ELSE pre_trade_check_unguarded(k, peak, cur, daily, losses, st, signal)

PreTradeCheck(signal) ==
    LET r == pre_trade_check(kill_switch, peak_balance, current_balance, daily_pnl,
                             consecutive_losses, settings, signal)
    IN  /\ kill_switch' = r.kill
        /\ riskCall' = RiskCall("pre_trade_check", r.ok, Zero, kill_switch)
        /\ UNCHANGED <<trades_at_reset, settings, starting_balance, peak_balance, current_balance,
                       daily_pnl, consecutive_losses, trade_log>>

calculate_position_size_gross_odds(k, peak, cur, daily, losses, st, signal) ==
    LET r == pre_trade_check(k, peak, cur, daily, losses, st, signal)
        price == signal.suggested_price
    IN  IF ~r.ok
        THEN [size |-> Zero, kill |-> r.kill]
        ELSE IF RLe(price, Zero) \/ RGe(price, One)
        THEN [size |-> Zero, kill |-> r.kill]
        ELSE [size |-> position_size(cur, signal.confidence,
                                     RDiv(One, price),
                                     st.kelly_fraction, st.max_kelly_fraction,
                                     st.max_position_size_usd),
              kill |-> r.kill]

\* calculate_position_size(signal) as [size, kill].
calculate_position_size(k, peak, cur, daily, losses, st, signal) ==
    LET r == pre_trade_check(k, peak, cur, daily, losses, st, signal)
        price == signal.suggested_price
    IN  IF ~r.ok
        THEN [size |-> Zero, kill |-> r.kill]
        ELSE IF RLe(price, Zero) \/ RGe(price, One)
        THEN [size |-> Zero, kill |-> r.kill]
        ELSE [size |-> position_size(cur, signal.confidence,
                                     RSub(RDiv(One, price), One),
                                     st.kelly_fraction, st.max_kelly_fraction,
                                     st.max_position_size_usd),
              kill |-> r.kill]

CalculatePositionSize(signal) ==
    LET r == calculate_position_size(kill_switch, peak_balance, current_balance,
                                     daily_pnl, consecutive_losses, settings, signal)
    IN  /\ kill_switch' = r.kill
        /\ riskCall' = RiskCallOn("calculate_position_size", TRUE, r.size, kill_switch, signal)
        /\ UNCHANGED <<trades_at_reset, settings, starting_balance, peak_balance, current_balance,
                       daily_pnl, consecutive_losses, trade_log>>

\* deque(maxlen=TradeLogMaxLen).append
LogAppend(log, x) ==
    IF Len(log) >= TradeLogMaxLen THEN Append(Tail(log), x) ELSE Append(log, x)

RecordTrade_zero_is_loss(pnl) ==
    LET daily == RAdd(daily_pnl, pnl)
        cur == RAdd(current_balance, pnl)
        peak == IF RGt(cur, peak_balance) THEN cur ELSE peak_balance
        losses == IF RLe(pnl, Zero) THEN consecutive_losses + 1 ELSE 0
        k1 == AfterCheck(kill_switch, drawdown_safe(peak, cur, settings))
        k2 == AfterCheck(k1, daily_loss_safe(daily, settings))
        k3 == AfterCheck(k2, consecutive_losses_safe(losses, settings))
    IN  /\ Len(trade_log) < MaxTrades
        /\ trade_log' = LogAppend(trade_log, pnl)
        /\ daily_pnl' = daily
        /\ current_balance' = cur
        /\ peak_balance' = peak
        /\ consecutive_losses' = losses
        /\ kill_switch' = k3
        /\ riskCall' = RiskCall("record_trade", TRUE, Zero, kill_switch)
        /\ UNCHANGED <<trades_at_reset, settings, starting_balance>>

RecordTrade_checks_first(pnl) ==
    LET k1 == AfterCheck(kill_switch, drawdown_safe(peak_balance, current_balance, settings))
        k2 == AfterCheck(k1, daily_loss_safe(daily_pnl, settings))
        k3 == AfterCheck(k2, consecutive_losses_safe(consecutive_losses, settings))
        cur == RAdd(current_balance, pnl)
    IN  /\ Len(trade_log) < MaxTrades
        /\ trade_log' = LogAppend(trade_log, pnl)
        /\ daily_pnl' = RAdd(daily_pnl, pnl)
        /\ current_balance' = cur
        /\ peak_balance' = IF RGt(cur, peak_balance) THEN cur ELSE peak_balance
        /\ consecutive_losses' = IF RLt(pnl, Zero) THEN consecutive_losses + 1 ELSE 0
        /\ kill_switch' = k3
        /\ riskCall' = RiskCall("record_trade", TRUE, Zero, kill_switch)
        /\ UNCHANGED <<trades_at_reset, settings, starting_balance>>

RecordTrade(pnl) ==
    LET daily == RAdd(daily_pnl, pnl)
        cur == RAdd(current_balance, pnl)
        peak == IF RGt(cur, peak_balance) THEN cur ELSE peak_balance
        losses == IF RLt(pnl, Zero) THEN consecutive_losses + 1 ELSE 0
        k1 == AfterCheck(kill_switch, drawdown_safe(peak, cur, settings))
        k2 == AfterCheck(k1, daily_loss_safe(daily, settings))
        k3 == AfterCheck(k2, consecutive_losses_safe(losses, settings))
    IN  /\ Len(trade_log) < MaxTrades
        /\ trade_log' = LogAppend(trade_log, pnl)
        /\ daily_pnl' = daily
        /\ current_balance' = cur
        /\ peak_balance' = peak
        /\ consecutive_losses' = losses
        /\ kill_switch' = k3
        /\ riskCall' = RiskCall("record_trade", TRUE, Zero, kill_switch)
        /\ UNCHANGED <<trades_at_reset, settings, starting_balance>>

ResetDaily_keeps_streak ==
    /\ daily_pnl' = Zero
    /\ trades_at_reset' = Len(trade_log)
    /\ riskCall' = RiskCall("reset_daily", TRUE, Zero, kill_switch)
    /\ UNCHANGED <<settings, kill_switch, starting_balance, peak_balance, current_balance,
                   consecutive_losses, trade_log>>

ResetDaily_clears_kill ==
    /\ daily_pnl' = Zero
    /\ consecutive_losses' = 0
    /\ kill_switch' = FALSE
    /\ trades_at_reset' = Len(trade_log)
    /\ riskCall' = RiskCall("reset_daily", TRUE, Zero, kill_switch)
    /\ UNCHANGED <<settings, starting_balance, peak_balance, current_balance, trade_log>>

ResetDaily ==
    /\ daily_pnl' = Zero
    /\ consecutive_losses' = 0
    /\ trades_at_reset' = Len(trade_log)
    /\ riskCall' = RiskCall("reset_daily", TRUE, Zero, kill_switch)
    /\ UNCHANGED <<settings, kill_switch, starting_balance, peak_balance, current_balance,
                   trade_log>>

(***************************************************************************)
(* RiskManager.pre_trade_check line by line, beside another thread         *)
(***************************************************************************)
\* The thread is outside the method ("idle"), at one of its lines, or has
\* returned ok; killed_at_return is is_killed at the moment of the return.
Ptc(pc, signal, ok, killed_at_return) ==
    [pc |-> pc, signal |-> signal, ok |-> ok, killed_at_return |-> killed_at_return]
PtcIdle == Ptc("idle", NoSignal, FALSE, FALSE)
PtcReturn(ok) == Ptc("returned", ptc.signal, ok, kill_switch')

\* Orchestrator: pc is the position in __init__ / run / _tick; running is
\* _running; m, orderbooks, signal, size and pnl are the locals of _tick and
\* _execute_signal (signal, size and pnl while they are live); fetched (every book fetched in this tick) and realized
\* (the nonzero realized P&L of every fill so far) are history.
Bot(pc) ==
    [pc |-> pc, running |-> FALSE, m |-> 0, orderbooks |-> <<>>, signal |-> NoSignal,
     size |-> Zero, pnl |-> Zero, fetched |-> <<>>, realized |-> <<>>]

\* No orchestrator is built.
CallerInit == ptc = PtcIdle /\ bot = Bot("none")

\* The arithmetic is that of the reals unless a specification says otherwise.
RealArithmetic == mant_dig = 0

RestInit == SizerIdle /\ CallerInit /\ RealArithmetic

PtcFrame ==
    UNCHANGED <<bot, settings, starting_balance, peak_balance, current_balance, daily_pnl,
                consecutive_losses, trade_log, riskCall, trades_at_reset>>

\* if self.is_killed: return False
PtcEnter(signal) ==
    /\ ptc.pc \in {"idle", "returned"}
    /\ ptc' = IF kill_switch
              THEN Ptc("returned", signal, FALSE, kill_switch)
              ELSE Ptc("check_drawdown", signal, FALSE, FALSE)
    /\ UNCHANGED kill_switch
    /\ PtcFrame

\* if not self.check_xxx(): return False
PtcCheck(line, safe, next) ==
    /\ ptc.pc = line
    /\ kill_switch' = AfterCheck(kill_switch, safe)
    /\ ptc' = IF safe THEN [ptc EXCEPT !.pc = next] ELSE PtcReturn(FALSE)
    /\ PtcFrame

PtcDrawdown ==
    PtcCheck("check_drawdown", drawdown_safe(peak_balance, current_balance, settings),
             "check_daily_loss")
PtcDailyLoss ==
    PtcCheck("check_daily_loss", daily_loss_safe(daily_pnl, settings),
             "check_consecutive_losses")
PtcConsecutiveLosses ==
    PtcCheck("check_consecutive_losses",
             consecutive_losses_safe(consecutive_losses, settings), "max_size")

\* if signal.max_size > max_position_size_usd: return False; return True
PtcMaxSize ==
    /\ ptc.pc = "max_size"
    /\ UNCHANGED kill_switch
    /\ ptc' = PtcReturn(RLe(ptc.signal.max_size, settings.max_position_size_usd))
    /\ PtcFrame

\* Another thread calls trigger_kill_switch, at any time.
ExternalTrip == TriggerKillSwitch /\ UNCHANGED <<ptc, bot>>

\* Between two calls of pre_trade_check the calling thread updates the
\* balance and records trades.
BetweenCalls(A) == ptc.pc \in {"idle", "returned"} /\ A /\ UNCHANGED <<ptc, bot>>

RaceNext ==
    \/ \E s \in PreTradeSignals : PtcEnter(s) /\ UNCHANGED <<paperVars, sizerVars, mant_dig>>
    \/ PtcDrawdown /\ UNCHANGED <<paperVars, sizerVars, mant_dig>>
    \/ PtcDailyLoss /\ UNCHANGED <<paperVars, sizerVars, mant_dig>>
    \/ PtcConsecutiveLosses /\ UNCHANGED <<paperVars, sizerVars, mant_dig>>
    \/ PtcMaxSize /\ UNCHANGED <<paperVars, sizerVars, mant_dig>>
    \/ ExternalTrip /\ UNCHANGED <<paperVars, sizerVars, mant_dig>>
    \/ \E b \in BalanceInputs : BetweenCalls(SetBalance(b)) /\ UNCHANGED <<paperVars, sizerVars, mant_dig>>
    \/ \E x \in PnlInputs : BetweenCalls(RecordTrade(x)) /\ UNCHANGED <<paperVars, sizerVars, mant_dig>>

(***************************************************************************)
(* Inputs and configuration of the paper trader                            *)
(***************************************************************************)
PaperBalances == {RInt(15)}
SlippageSet == {RInt(2500)}
TtlSet == {0}
PaperTokens == {"tok1"}
SignalPrices == {Zero, R(2, 5), R(3, 5)}
SizeInputs == {Zero, RInt(12)}

\* A book snapshot as data/orderbook_tracker.py builds it: (price, size)
\* levels, bids sorted descending and asks ascending by price.
Level(p, sz) == <<p, sz>>
Book(bids, asks) == [bids |-> bids, asks |-> asks]
Books ==
    { Book(<<Level(R(2, 5), RInt(40))>>, <<Level(R(3, 5), RInt(40))>>),
      Book(<<Level(R(3, 5), RInt(10)), Level(R(2, 5), RInt(10))>>,
           <<Level(R(2, 5), RInt(10)), Level(R(3, 5), RInt(10))>>),
      Book(<<Level(R(3, 5), Zero)>>, <<Level(R(2, 5), Zero)>>) }

\* The orderbooks argument of check_resting_orders: token_id -> snapshot,
\* possibly without an entry for a token.
OrderbookMaps(toks) == UNION { [d -> Books] : d \in SUBSET toks }

MaxExecutes == 2
MaxTime == 1

(***************************************************************************)
(* bot/paper_trader.py: records                                            *)
(***************************************************************************)
PaperOrder(id, t, sd, p, q, created, ttl) ==
    [order_id |-> id, token_id |-> t, side |-> sd, price |-> p, quantity |-> q,
     status |-> "open", filled_quantity |-> Zero, avg_fill_price |-> Zero,
     created_at |-> created, ttl_seconds |-> ttl]

FillResult(st, q, p, slip, pnl, id) ==
    [status |-> st, filled_qty |-> q, avg_fill_price |-> p, slippage_bps |-> slip,
     realized_pnl |-> pnl, order_id |-> id]

Position(t) ==
    [token_id |-> t, quantity |-> Zero, avg_entry_price |-> Zero, cost_basis |-> Zero,
     realized_pnl |-> Zero]

\* The order id of a FillResult built without one (order_id = "").
NoOrderId == 0

(***************************************************************************)
(* PaperTrader._update_position                                            *)
(***************************************************************************)
\* Each branch maps the position and the ledger totals to
\* [pos, balance, total, realized_pnl].
update_buy_unweighted(pos, bal, total, qty, price) ==
    LET total_qty == RAdd(pos.quantity, qty)
        avg == IF RGt(total_qty, Zero)
               THEN RDiv(RAdd(pos.avg_entry_price, price), RInt(2))
               ELSE pos.avg_entry_price
    IN  [pos |-> [pos EXCEPT !.avg_entry_price = avg,
                             !.quantity = total_qty,
                             !.cost_basis = RMul(total_qty, avg)],
         balance |-> RSub(bal, RMul(qty, price)),
         total |-> total,
         realized_pnl |-> Zero]

update_buy(pos, bal, total, qty, price) ==
    LET cost == RMul(qty, price)
        total_qty == RAdd(pos.quantity, qty)
        avg == IF RGt(total_qty, Zero)
               THEN RDiv(RAdd(RMul(pos.quantity, pos.avg_entry_price), RMul(qty, price)),
                         total_qty)
               ELSE pos.avg_entry_price
    IN  [pos |-> [pos EXCEPT !.avg_entry_price = avg,
                             !.quantity = total_qty,
                             !.cost_basis = RMul(total_qty, avg)],
         balance |-> RSub(bal, cost),
         total |-> total,
         realized_pnl |-> Zero]

update_sell_long_whole_basis(pos, bal, total, qty, price) ==
    LET sell_qty == RMin(qty, pos.quantity)
        realized == RSub(RMul(sell_qty, price), pos.cost_basis)
        left == RSub(pos.quantity, sell_qty)
    IN  [pos |-> [pos EXCEPT !.realized_pnl = RAdd(pos.realized_pnl, realized),
                             !.quantity = left,
                             !.cost_basis = RMul(left, pos.avg_entry_price)],
         balance |-> RAdd(bal, RMul(sell_qty, price)),
         total |-> RAdd(total, realized),
         realized_pnl |-> realized]

update_sell_long_credits_entry(pos, bal, total, qty, price) ==
    LET sell_qty == RMin(qty, pos.quantity)
        realized == RMul(sell_qty, RSub(price, pos.avg_entry_price))
        left == RSub(pos.quantity, sell_qty)
    IN  [pos |-> [pos EXCEPT !.realized_pnl = RAdd(pos.realized_pnl, realized),
                             !.quantity = left,
                             !.cost_basis = RMul(left, pos.avg_entry_price)],
         balance |-> RAdd(bal, RMul(sell_qty, pos.avg_entry_price)),
         total |-> RAdd(total, realized),
         realized_pnl |-> realized]

update_sell_long(pos, bal, total, qty, price) ==
    LET sell_qty == RMin(qty, pos.quantity)
        realized == RMul(sell_qty, RSub(price, pos.avg_entry_price))
        left == RSub(pos.quantity, sell_qty)
    IN  [pos |-> [pos EXCEPT !.realized_pnl = RAdd(pos.realized_pnl, realized),
                             !.quantity = left,
                             !.cost_basis = RMul(left, pos.avg_entry_price)],
         balance |-> RAdd(bal, RMul(sell_qty, price)),
         total |-> RAdd(total, realized),
         realized_pnl |-> realized]

update_sell_short_blends(pos, bal, total, qty, price) ==
    LET total_qty == RSub(pos.quantity, qty)
        avg == IF total_qty = Zero THEN price
               ELSE RDiv(RAdd(RMul(RAbs(pos.quantity), pos.avg_entry_price),
                              RMul(qty, price)),
                         RAbs(total_qty))
    IN  [pos |-> [pos EXCEPT !.avg_entry_price = avg,
                             !.quantity = total_qty,
                             !.cost_basis = RMul(RAbs(total_qty), avg)],
         balance |-> RAdd(bal, RMul(qty, price)),
         total |-> total,
         realized_pnl |-> Zero]

update_sell_short(pos, bal, total, qty, price) ==
    LET total_qty == RSub(pos.quantity, qty)
    IN  [pos |-> [pos EXCEPT !.avg_entry_price = price,
                             !.quantity = total_qty,
                             !.cost_basis = RMul(RAbs(total_qty), price)],
         balance |-> RAdd(bal, RMul(qty, price)),
         total |-> total,
         realized_pnl |-> Zero]

update_position(pos, bal, total, side, qty, price) ==
    IF side = "BUY" THEN update_buy(pos, bal, total, qty, price)
    ELSE IF side = "SELL"
    THEN IF RGt(pos.quantity, Zero)
         THEN update_sell_long(pos, bal, total, qty, price)
         ELSE update_sell_short(pos, bal, total, qty, price)
    ELSE [pos |-> pos, balance |-> bal, total |-> total, realized_pnl |-> Zero]

\* self._positions[token_id], created on first use.
PositionOf(poss, t) == IF t \in DOMAIN poss THEN poss[t] ELSE Position(t)

(***************************************************************************)
(* PaperTrader._try_fill                                                   *)
(***************************************************************************)
marketable_levels(side, price, orderbook) ==
    LET buyable(l) == RLe(l[1], price)
        sellable(l) == RGe(l[1], price)
    IN  IF side = "BUY" THEN SelectSeq(orderbook.asks, buyable)
        ELSE SelectSeq(orderbook.bids, sellable)

walk_levels_first_level(levels, remaining, total_cost, filled_qty) ==
    IF levels = <<>> \/ RLe(remaining, Zero)
    THEN [remaining |-> remaining, total_cost |-> total_cost, filled_qty |-> filled_qty]
    ELSE LET fill_at_level == RMin(remaining, Head(levels)[2])
         IN  [remaining |-> RSub(remaining, fill_at_level),
              total_cost |-> RAdd(total_cost, RMul(fill_at_level, Head(levels)[1])),
              filled_qty |-> RAdd(filled_qty, fill_at_level)]

\* The walk over the marketable levels: [remaining, total_cost, filled_qty].
RECURSIVE walk_levels(_, _, _, _)
walk_levels(levels, remaining, total_cost, filled_qty) ==
    IF levels = <<>> \/ RLe(remaining, Zero)
    THEN [remaining |-> remaining, total_cost |-> total_cost, filled_qty |-> filled_qty]
    ELSE LET fill_at_level == RMin(remaining, Head(levels)[2])
         IN  walk_levels(Tail(levels),
                         RSub(remaining, fill_at_level),
                         RAdd(total_cost, RMul(fill_at_level, Head(levels)[1])),
                         RAdd(filled_qty, fill_at_level))

apply_slippage_favourable(side, avg_price, bps) ==
    LET slippage_mult == RDiv(bps, RInt(10000))
    IN  IF side = "BUY" THEN RMul(avg_price, RSub(One, slippage_mult))
        ELSE RMul(avg_price, RAdd(One, slippage_mult))

apply_slippage(side, avg_price, bps) ==
    LET slippage_mult == RDiv(bps, RInt(10000))
    IN  IF side = "BUY" THEN RMul(avg_price, RAdd(One, slippage_mult))
        ELSE RMul(avg_price, RSub(One, slippage_mult))

\* The status of a fill that was applied, from what the walk left unfilled.
fill_status(remaining) == IF RLe(remaining, Zero) THEN "filled" ELSE "partial"

\* The balance check for buys: the quantity the balance pays for.
affordable_qty(side, filled_qty, avg_price, bal) ==
    IF side = "BUY" /\ RGt(RMul(filled_qty, avg_price), bal)
    THEN RDiv(bal, avg_price)
    ELSE filled_qty

\* One _try_fill call on the ledger (bal, poss, total) yields
\* [fill, balance, positions, total, attempt], attempt being the record of the
\* call kept in paperCall.  The call is split at the values it computes once
\* and uses afterwards: the marketable levels, the walk w, the average price
\* and the quantity.
Attempt(order, levels, fill, pb, pa, bb, ba) ==
    [order |-> order, marketable |-> levels, fill |-> fill, pos_before |-> pb,
     pos_after |-> pa, bal_before |-> bb, bal_after |-> ba]

Outcome(f, order, levels, pb, pa, bb, ba, poss, total) ==
    [fill |-> f, balance |-> ba, positions |-> poss, total |-> total,
     attempt |-> Attempt(order, levels, f, pb, pa, bb, ba)]

NoFill(st, order, levels, bal, poss, total) ==
    Outcome(FillResult(st, Zero, Zero, Zero, Zero, order.order_id), order, levels,
            PositionOf(poss, order.token_id), PositionOf(poss, order.token_id),
            bal, bal, poss, total)

fill_applied(order, levels, w, avg_price, filled_qty, pos, u, bal, poss) ==
    Outcome(FillResult(fill_status(w.remaining), filled_qty, avg_price,
                       RMul(RDiv(RAbs(RSub(avg_price, order.price)), order.price),
                            RInt(10000)),
                       u.realized_pnl, order.order_id),
            order, levels, pos, u.pos, bal, u.balance,
            (order.token_id :> u.pos) @@ poss, u.total)

fill_sized(order, levels, w, avg_price, filled_qty, bal, poss, total) ==
    IF RLe(filled_qty, Zero)
    THEN NoFill("rejected", order, levels, bal, poss, total)
    ELSE fill_applied(order, levels, w, avg_price, filled_qty,
                      PositionOf(poss, order.token_id),
                      update_position(PositionOf(poss, order.token_id), bal, total,
                                      order.side, filled_qty, avg_price),
                      bal, poss)

fill_priced(order, levels, w, avg_price, bal, poss, total) ==
    fill_sized(order, levels, w, avg_price,
               affordable_qty(order.side, w.filled_qty, avg_price, bal),
               bal, poss, total)

fill_walked(order, levels, w, bal, poss, total, bps) ==
    IF RLe(w.filled_qty, Zero)
    THEN NoFill("resting", order, levels, bal, poss, total)
    ELSE fill_priced(order, levels, w,
                     apply_slippage(order.side, RDiv(w.total_cost, w.filled_qty), bps),
                     bal, poss, total)

fill_levels(order, levels, bal, poss, total, bps) ==
    IF levels = <<>>
    THEN NoFill("resting", order, levels, bal, poss, total)
    ELSE fill_walked(order, levels, walk_levels(levels, order.quantity, Zero, Zero),
                     bal, poss, total, bps)

try_fill(order, orderbook, bal, poss, total, bps) ==
    fill_levels(order, marketable_levels(order.side, order.price, orderbook),
                bal, poss, total, bps)

(***************************************************************************)
(* History of Buy fills per token (not program state)                      *)
(***************************************************************************)
\* count, qty, cost: the number, total quantity and total cost of the Buy
\* fills applied to the token; pure: no Sell fill was applied to it yet.  The
\* sums are dropped once a Sell is applied.  long_only: no Sell fill was
\* applied to it while its position quantity was <= 0.
NoBuys == [count |-> 0, qty |-> Zero, cost |-> Zero, pure |-> TRUE, long_only |-> TRUE]

RecordAttempt(h, a) ==
    LET t == a.order.token_id
        old == IF t \in DOMAIN h THEN h[t] ELSE NoBuys
        long_only == /\ old.long_only
                     /\ ~(a.order.side = "SELL" /\ RLe(a.pos_before.quantity, Zero))
    IN  IF a.fill.status \notin {"filled", "partial"} THEN h
        ELSE IF a.order.side = "BUY" /\ old.pure
        THEN (t :> [count |-> old.count + 1,
                    qty |-> RAdd(old.qty, a.fill.filled_qty),
                    cost |-> RAdd(old.cost, RMul(a.fill.filled_qty, a.fill.avg_fill_price)),
                    pure |-> TRUE, long_only |-> long_only]) @@ h
        ELSE (t :> [count |-> 0, qty |-> Zero, cost |-> Zero, pure |-> FALSE,
                    long_only |-> long_only]) @@ h

RECURSIVE RecordAttempts(_, _)
RecordAttempts(h, as) ==
    IF as = <<>> THEN h ELSE RecordAttempts(RecordAttempt(h, Head(as)), Tail(as))

(***************************************************************************)
(* PaperTrader.execute                                                     *)
(***************************************************************************)
\* The record of a call: for execute the signal's price and the size asked
\* for, for check_resting_orders the snapshots of its orderbooks argument for
\* the tokens of the resting orders; the FillResults
\* returned, the _try_fill calls made and the orders that expired.
PaperCall(op, price, size_usd, fills, attempts, expired, orderbooks) ==
    [op |-> op, price |-> price, size_usd |-> size_usd, fills |-> fills,
     attempts |-> attempts, expired |-> expired, orderbooks |-> orderbooks]

\* The fields of a new PaperTrader that do not come from its arguments.
PaperEmpty ==
    /\ positions = <<>>
    /\ resting_orders = <<>>
    /\ filled_orders = <<>>
    /\ total_realized_pnl = Zero
    /\ now = 0
    /\ executes = 0
    /\ buys = <<>>
    /\ paperCall = PaperCall("init", Zero, Zero, <<>>, <<>>, <<>>, <<>>)

\* PaperTrader(balance, slippage_bps, order_ttl) but for order_ttl.
PaperFields ==
    /\ balance \in PaperBalances
    /\ initial_balance = balance
    /\ slippage_bps \in SlippageSet
    /\ PaperEmpty

PaperInit == PaperFields /\ order_ttl \in TtlSet

\* quantity = size_usd / signal.suggested_price if signal.suggested_price > 0 else 0.0
order_quantity(signal, size_usd) ==
    IF RGt(signal.suggested_price, Zero) THEN RDiv(size_usd, signal.suggested_price) ELSE Zero

order_after_fill_always_partial(order, fill) ==
    LET o1 == IF RGt(fill.filled_qty, Zero)
              THEN [order EXCEPT !.filled_quantity = fill.filled_qty,
                                 !.avg_fill_price = fill.avg_fill_price]
              ELSE order
    IN  IF fill.status = "filled" THEN [o1 EXCEPT !.status = "filled"]
        ELSE IF RGt(RSub(o1.quantity, o1.filled_quantity), Zero)
        THEN [o1 EXCEPT !.status = "partial"]
        ELSE o1

\* The order execute keeps after a fill that was not rejected: its fill fields
\* and its status.
order_after_fill(order, fill) ==
    LET o1 == IF RGt(fill.filled_qty, Zero)
              THEN [order EXCEPT !.filled_quantity = fill.filled_qty,
                                 !.avg_fill_price = fill.avg_fill_price]
              ELSE order
    IN  IF fill.status = "filled" THEN [o1 EXCEPT !.status = "filled"]
        ELSE IF RGt(RSub(o1.quantity, o1.filled_quantity), Zero)
        THEN [o1 EXCEPT !.status = IF RGt(o1.filled_quantity, Zero) THEN "partial" ELSE "open"]
        ELSE o1

\* execute after _try_fill returned r for the order, kept being the order
\* with the fill recorded on it.
ExecuteFilled(signal, size_usd, r, kept) ==
    /\ executes < MaxExecutes
    /\ executes' = executes + 1
    /\ balance' = r.balance
    /\ positions' = r.positions
    /\ total_realized_pnl' = r.total
    /\ filled_orders' = IF r.fill.status = "filled"
                        THEN Append(filled_orders, kept) ELSE filled_orders
    /\ resting_orders' = IF /\ r.fill.status \notin {"rejected", "filled"}
                            /\ RGt(RSub(kept.quantity, kept.filled_quantity), Zero)
                         THEN Append(resting_orders, kept)
                         ELSE resting_orders
    /\ buys' = RecordAttempt(buys, r.attempt)
    /\ paperCall' = PaperCall("execute", signal.suggested_price, size_usd, <<r.fill>>,
                              <<r.attempt>>, <<>>, <<>>)
    /\ UNCHANGED <<initial_balance, slippage_bps, order_ttl, now>>

ExecuteTried(signal, size_usd, order, r) ==
    ExecuteFilled(signal, size_usd, r, order_after_fill(order, r.fill))

ExecuteOrder(signal, size_usd, orderbook, order) ==
    ExecuteTried(signal, size_usd, order,
                 try_fill(order, orderbook, balance, positions, total_realized_pnl,
                          slippage_bps))

ExecuteRejected_rests(signal, size_usd) ==
    /\ executes < MaxExecutes
    /\ executes' = executes + 1
    /\ resting_orders' =
           Append(resting_orders,
                  PaperOrder(executes + 1, signal.token_id, signal.side,
                             signal.suggested_price, Zero, now, order_ttl))
    /\ paperCall' = PaperCall("execute", signal.suggested_price, size_usd,
                              <<FillResult("rejected", Zero, Zero, Zero, Zero, NoOrderId)>>,
                              <<>>, <<>>, <<>>)
    /\ UNCHANGED <<balance, initial_balance, slippage_bps, order_ttl, positions,
                   filled_orders, total_realized_pnl, now, buys>>

ExecuteRejected(signal, size_usd) ==
    /\ executes < MaxExecutes
    /\ executes' = executes + 1
    /\ paperCall' = PaperCall("execute", signal.suggested_price, size_usd,
                              <<FillResult("rejected", Zero, Zero, Zero, Zero, NoOrderId)>>,
                              <<>>, <<>>, <<>>)
    /\ UNCHANGED <<balance, initial_balance, slippage_bps, order_ttl, positions,
                   resting_orders, filled_orders, total_realized_pnl, now, buys>>

ExecuteQuantity(signal, size_usd, orderbook, quantity) ==
    IF RLe(quantity, Zero)
    THEN ExecuteRejected(signal, size_usd)
    ELSE ExecuteOrder(signal, size_usd, orderbook,
                      PaperOrder(executes + 1, signal.token_id, signal.side,
                                 signal.suggested_price, quantity, now, order_ttl))

Execute(signal, size_usd, orderbook) ==
    ExecuteQuantity(signal, size_usd, orderbook, order_quantity(signal, size_usd))

(***************************************************************************)
(* PaperTrader.check_resting_orders                                        *)
(***************************************************************************)
remaining_order_full(order) ==
    PaperOrder(order.order_id, order.token_id, order.side, order.price,
               order.quantity, order.created_at, order.ttl_seconds)

\* The order handed to _try_fill for a resting order: its remaining quantity.
remaining_order(order) ==
    PaperOrder(order.order_id, order.token_id, order.side, order.price,
               RSub(order.quantity, order.filled_quantity), order.created_at,
               order.ttl_seconds)

\* The resting order after an incremental fill: cumulative quantity and
\* running average fill price.
order_after_increment(order, fill) ==
    LET filled == RAdd(order.filled_quantity, fill.filled_qty)
        prev_cost == RMul(order.filled_quantity, order.avg_fill_price)
        new_cost == RMul(fill.filled_qty, fill.avg_fill_price)
    IN  [order EXCEPT !.filled_quantity = filled,
                      !.avg_fill_price = IF RGt(filled, Zero)
                                         THEN RDiv(RAdd(prev_cost, new_cost), filled)
                                         ELSE Zero]

is_expired_reversed(order, t) == order.created_at - t > order.ttl_seconds

is_expired_at_deadline(order, t) == t - order.created_at >= order.ttl_seconds

is_expired(order, t) == t - order.created_at > order.ttl_seconds

check_settle_strict(acc, r, o1) ==
    [acc EXCEPT !.balance = r.balance,
                !.positions = r.positions,
                !.total = r.total,
                !.fills = IF RGt(r.fill.filled_qty, Zero) THEN Append(@, r.fill) ELSE @,
                !.attempts = Append(@, r.attempt),
                !.filled = IF RGt(o1.filled_quantity, o1.quantity)
                           THEN Append(@, [o1 EXCEPT !.status = "filled"]) ELSE @,
                !.still = IF RGt(o1.filled_quantity, o1.quantity)
                          THEN @ ELSE Append(@, o1)]

check_settle_keeps_filled(acc, r, o1) ==
    [acc EXCEPT !.balance = r.balance,
                !.positions = r.positions,
                !.total = r.total,
                !.fills = IF RGt(r.fill.filled_qty, Zero) THEN Append(@, r.fill) ELSE @,
                !.attempts = Append(@, r.attempt),
                !.filled = IF RGe(o1.filled_quantity, o1.quantity)
                           THEN Append(@, [o1 EXCEPT !.status = "filled"]) ELSE @,
                !.still = Append(@, o1)]

\* The body of the loop over self._resting_orders for one order; acc carries
\* the ledger, the lists being built and the record of the call.
check_settle(acc, r, o1) ==
    [acc EXCEPT !.balance = r.balance,
                !.positions = r.positions,
                !.total = r.total,
                !.fills = IF RGt(r.fill.filled_qty, Zero) THEN Append(@, r.fill) ELSE @,
                !.attempts = Append(@, r.attempt),
                !.filled = IF RGe(o1.filled_quantity, o1.quantity)
                           THEN Append(@, [o1 EXCEPT !.status = "filled"]) ELSE @,
                !.still = IF RGe(o1.filled_quantity, o1.quantity)
                          THEN @ ELSE Append(@, o1)]

check_filled(order, acc, r) ==
    check_settle(acc, r,
                 IF RGt(r.fill.filled_qty, Zero)
                 THEN order_after_increment(order, r.fill) ELSE order)

check_order_drops_missing(order, orderbooks, t, bps, acc) ==
    IF is_expired(order, t)
    THEN [acc EXCEPT !.expired = Append(@, [order EXCEPT !.status = "expired"])]
    ELSE IF order.token_id \notin DOMAIN orderbooks
    THEN acc
    ELSE check_filled(order, acc,
                      try_fill(remaining_order(order), orderbooks[order.token_id],
                               acc.balance, acc.positions, acc.total, bps))

check_order(order, orderbooks, t, bps, acc) ==
    IF is_expired(order, t)
    THEN [acc EXCEPT !.expired = Append(@, [order EXCEPT !.status = "expired"])]
    ELSE IF order.token_id \notin DOMAIN orderbooks
    THEN [acc EXCEPT !.still = Append(@, order)]
    ELSE check_filled(order, acc,
                      try_fill(remaining_order(order), orderbooks[order.token_id],
                               acc.balance, acc.positions, acc.total, bps))

RECURSIVE check_loop(_, _, _, _, _)
check_loop(orders, orderbooks, t, bps, acc) ==
    IF orders = <<>> THEN acc
    ELSE check_loop(Tail(orders), orderbooks, t, bps,
                    check_order(Head(orders), orderbooks, t, bps, acc))

CheckDone(acc) ==
    /\ balance' = acc.balance
    /\ positions' = acc.positions
    /\ total_realized_pnl' = acc.total
    /\ filled_orders' = acc.filled
    /\ resting_orders' = acc.still
    /\ buys' = RecordAttempts(buys, acc.attempts)
    /\ paperCall' = PaperCall("check_resting_orders", Zero, Zero, acc.fills,
                              acc.attempts, acc.expired, acc.orderbooks)
    /\ UNCHANGED <<initial_balance, slippage_bps, order_ttl, now, executes>>

\* The part of the orderbooks argument that concerns the resting orders.
LookedUp(orderbooks, orders) ==
    [t \in DOMAIN orderbooks \cap { orders[i].token_id : i \in DOMAIN orders }
        |-> orderbooks[t]]

CheckRestingOrders(orderbooks) ==
    CheckDone(check_loop(resting_orders, orderbooks, now, slippage_bps,
                         [balance |-> balance, positions |-> positions,
                          total |-> total_realized_pnl, fills |-> <<>>,
                          attempts |-> <<>>, filled |-> filled_orders,
                          still |-> <<>>, expired |-> <<>>,
                          orderbooks |-> LookedUp(orderbooks, resting_orders)]))

\* time.time() moves on between calls.
AdvanceClock ==
    /\ now < MaxTime
    /\ now' = now + 1
    /\ UNCHANGED <<balance, initial_balance, slippage_bps, order_ttl, positions,
                   resting_orders, filled_orders, total_realized_pnl, executes,
                   buys, paperCall>>

PaperSignals(toks) ==
    { Signal(t, sd, R(3, 5), p, RInt(50)) : t \in toks, sd \in Sides, p \in SignalPrices }

\* The (signal, size_usd) arguments of execute: every signal with a positive
\* price and size, and one pair for each of price 0 and size 0.
ExecuteInputs ==
    { in \in PaperSignals(PaperTokens) \X SizeInputs :
        \/ RGt(in[1].suggested_price, Zero) /\ RGt(in[2], Zero)
        \/ in[1].suggested_price = Zero /\ RGt(in[2], Zero)
        \/ in[1].suggested_price = R(2, 5) /\ in[2] = Zero }

PaperNext ==
    \/ \E in \in ExecuteInputs, ob \in Books :
           Execute(in[1], in[2], ob) /\ UNCHANGED <<riskVars, restVars>>
    \/ \E obs \in OrderbookMaps(PaperTokens) :
           CheckRestingOrders(obs) /\ UNCHANGED <<riskVars, restVars>>
    \/ AdvanceClock /\ UNCHANGED <<riskVars, restVars>>

\* The paper trader on its own: the risk manager is built and left alone.
InitPaper == RiskInit /\ settings = DefaultSettings /\ PaperInit /\ RestInit

SpecPaper == InitPaper /\ [][PaperNext]_vars

RiskNext ==
    \/ TriggerKillSwitch /\ UNCHANGED <<paperVars, restVars>>
    \/ \E b \in BalanceInputs : SetBalance(b) /\ UNCHANGED <<paperVars, restVars>>
    \/ CheckDrawdown /\ UNCHANGED <<paperVars, restVars>>
    \/ CheckDailyLoss /\ UNCHANGED <<paperVars, restVars>>
    \/ CheckConsecutiveLosses /\ UNCHANGED <<paperVars, restVars>>
    \/ \E s \in PreTradeSignals : PreTradeCheck(s) /\ UNCHANGED <<paperVars, restVars>>
    \/ \E s \in PreTradeSignals : CalculatePositionSize(s) /\ UNCHANGED <<paperVars, restVars>>
    \/ \E x \in PnlInputs : RecordTrade(x) /\ UNCHANGED <<paperVars, restVars>>
    \/ ResetDaily /\ UNCHANGED <<paperVars, restVars>>

\* The risk manager on its own: the paper trader is built and left alone.
InitRisk == RiskInit /\ PaperInit /\ RestInit

SpecRisk == InitRisk /\ [][RiskNext]_vars

\* The risk manager asked to size every kind of signal, between balance
\* updates, trades and trips of the switch.
SizingNext ==
    \/ TriggerKillSwitch /\ UNCHANGED <<paperVars, restVars>>
    \/ \E b \in BalanceInputs : SetBalance(b) /\ UNCHANGED <<paperVars, restVars>>
    \/ \E s \in RiskSignals : CalculatePositionSize(s) /\ UNCHANGED <<paperVars, restVars>>
    \/ \E x \in PnlInputs : RecordTrade(x) /\ UNCHANGED <<paperVars, restVars>>

SpecSizing == InitRisk /\ [][SizingNext]_vars

\* A thread inside pre_trade_check beside a thread that trips the switch.
SpecRace == InitRisk /\ [][RaceNext]_vars

(***************************************************************************)
(* bot/orchestrator.py in paper mode                                       *)
(***************************************************************************)
\* get_active_markets(): two markets of one token each.
Markets == << {"tok1"}, {"tok2"} >>
\* What strategy.evaluate returns: (signal, metadata fixed_size_usd) pairs,
\* fixed_size_usd 0 for a signal without it.  The strategies buy and sell
\* each token at one price with a fixed size, and send two Buys that are sized
\* by calculate_position_size: one with max_size at the position limit and one
\* with a max_size of its own, SmallMaxSize.
BotSignals == { Signal(t, sd, R(9, 10), R(3, 5), RInt(50)) : t \in Tokens, sd \in Sides }
SmallMaxSize == RInt(2)
BotInputs ==
    (BotSignals \X {RInt(12)})
        \cup { <<sig, Zero>> : sig \in { x \in BotSignals : x.side = "BUY" /\ x.token_id = "tok1" } }
        \cup { <<Signal("tok1", "BUY", R(9, 10), R(3, 5), SmallMaxSize), Zero>> }
\* The snapshots fetch_orderbook returns.
BotBooks == { b \in Books : b.bids[1][2] # Zero }
\* settings.paper_order_ttl_seconds
BotTtl == 1

BotFrame == UNCHANGED <<sizerVars, ptc, mant_dig>>

\* Orchestrator.__init__, trading_mode == "paper": the PaperTrader is built
\* and the risk manager is given settings.paper_balance.
BotBuild ==
    /\ bot.pc = "init"
    /\ SetBalance(balance)
    /\ bot' = [bot EXCEPT !.pc = "new"]
    /\ UNCHANGED paperVars
    /\ BotFrame

\* run(): self._running = True
BotRun ==
    /\ bot.pc = "new"
    /\ bot' = [bot EXCEPT !.pc = "while", !.running = TRUE]
    /\ UNCHANGED <<riskVars, paperVars>>
    /\ BotFrame

BotWhile_ignores_kill ==
    /\ bot.pc = "while"
    /\ bot' = IF bot.running
              THEN [bot EXCEPT !.pc = "market", !.m = 1, !.orderbooks = <<>>,
                               !.fetched = <<>>]
              ELSE [bot EXCEPT !.pc = "stopped"]
    /\ UNCHANGED <<riskVars, paperVars>>
    /\ BotFrame

\* while self._running and not self._risk_manager.is_killed: self._tick(...)
\* up to `orderbooks = {}`.
BotWhile ==
    /\ bot.pc = "while"
    /\ bot' = IF bot.running /\ ~kill_switch
              THEN [bot EXCEPT !.pc = "market", !.m = 1, !.orderbooks = <<>>,
                               !.fetched = <<>>]
              ELSE [bot EXCEPT !.pc = "stopped"]
    /\ UNCHANGED <<riskVars, paperVars>>
    /\ BotFrame

\* for market in markets[:20]: orderbooks = self._fetch_orderbooks(market)
BotFetch(books) ==
    /\ bot.pc = "market"
    /\ bot.m <= Len(Markets)
    /\ DOMAIN books = Markets[bot.m]
    /\ bot' = [bot EXCEPT !.pc = "evaluate", !.orderbooks = books,
                          !.fetched = books @@ bot.fetched]
    /\ UNCHANGED <<riskVars, paperVars>>
    /\ BotFrame

\* for signal in signals (of strategy.evaluate(market, orderbooks, ...), on a
\* token of the market), up to `if size > 0`: a signal with fixed_size_usd
\* goes through pre_trade_check, one without through
\* calculate_position_size.
BotSignal(signal, fixed) ==
    /\ bot.pc = "evaluate"
    /\ signal.token_id \in Markets[bot.m]
    /\ executes < MaxExecutes
    /\ IF fixed # Zero
       THEN /\ PreTradeCheck(signal)
            /\ bot' = IF riskCall'.ok
                      THEN [bot EXCEPT !.pc = "execute", !.signal = signal, !.size = fixed]
                      ELSE bot
       ELSE /\ CalculatePositionSize(signal)
            /\ bot' = IF RGt(riskCall'.size, Zero)
                      THEN [bot EXCEPT !.pc = "execute", !.signal = signal,
                                       !.size = riskCall'.size]
                      ELSE bot
    /\ UNCHANGED paperVars
    /\ BotFrame

\* The nonzero realized P&L of a list of fills.
RealizedOf(fills) ==
    LET nz == SelectSeq(fills, LAMBDA f : f.realized_pnl # Zero)
    IN  [i \in 1..Len(nz) |-> nz[i].realized_pnl]

\* _execute_signal, paper branch, up to `if fill.realized_pnl != 0`.
BotExecute ==
    /\ bot.pc = "execute"
    /\ LET t == bot.signal.token_id
           ob == IF t \in DOMAIN bot.orderbooks THEN bot.orderbooks[t]
                 ELSE Book(<<>>, <<>>)
       IN  Execute(bot.signal, bot.size, ob)
    /\ LET pnl == paperCall'.fills[1].realized_pnl
       IN  bot' = IF pnl # Zero
                  THEN [bot EXCEPT !.pc = "record", !.pnl = pnl,
                                   !.signal = NoSignal, !.size = Zero,
                                   !.realized = Append(@, pnl)]
                  ELSE [bot EXCEPT !.pc = "evaluate", !.signal = NoSignal, !.size = Zero]
    /\ UNCHANGED riskVars
    /\ BotFrame

\* self._risk_manager.record_trade({"pnl": fill.realized_pnl, ...})
BotRecord ==
    /\ bot.pc = "record"
    /\ RecordTrade(bot.pnl)
    /\ bot' = [bot EXCEPT !.pc = "evaluate", !.pnl = Zero]
    /\ UNCHANGED paperVars
    /\ BotFrame

\* The strategies have no more signals for this market.
BotNextMarket ==
    /\ bot.pc = "evaluate"
    /\ bot' = [bot EXCEPT !.pc = "market", !.m = @ + 1]
    /\ UNCHANGED <<riskVars, paperVars>>
    /\ BotFrame

\* if self._paper_trader and orderbooks:
\*     self._paper_trader.check_resting_orders(orderbooks)
BotCheckResting ==
    /\ bot.pc = "market"
    /\ bot.m > Len(Markets)
    /\ IF DOMAIN bot.orderbooks # {}
       THEN /\ CheckRestingOrders(bot.orderbooks)
            /\ bot' = [bot EXCEPT !.pc = "sleep",
                                  !.realized = @ \o RealizedOf(paperCall'.fills)]
       ELSE /\ UNCHANGED paperVars
            /\ bot' = [bot EXCEPT !.pc = "sleep"]
    /\ UNCHANGED riskVars
    /\ BotFrame

\* self._tick_count += 1; time.sleep(tick_interval_seconds)
BotSleep ==
    /\ bot.pc = "sleep"
    /\ bot' = [bot EXCEPT !.pc = "while"]
    /\ now' = IF now < MaxTime THEN now + 1 ELSE now
    /\ UNCHANGED <<balance, initial_balance, slippage_bps, order_ttl, positions,
                   resting_orders, filled_orders, total_realized_pnl, executes,
                   buys, paperCall>>
    /\ UNCHANGED riskVars
    /\ BotFrame

\* stop(), from the signal handler of scripts/run_bot.py: _running is read
\* by the loop test only, so the call is placed in the sleep before it.
BotStop ==
    /\ bot.pc = "sleep"
    /\ bot.running
    /\ bot' = [bot EXCEPT !.running = FALSE]
    /\ UNCHANGED <<riskVars, paperVars>>
    /\ BotFrame

\* trigger_kill_switch called from outside the loop: before run(), or
\* during a tick, when the last market is done.
BotTrip ==
    /\ bot.pc = "new" \/ (bot.pc = "market" /\ bot.m > Len(Markets))
    /\ TriggerKillSwitch
    /\ UNCHANGED <<paperVars, restVars>>

BotNext ==
    \/ BotBuild
    \/ BotRun
    \/ BotWhile
    \/ \E t \in Tokens, b \in BotBooks : BotFetch([x \in {t} |-> b])
    \/ \E in \in BotInputs : BotSignal(in[1], in[2])
    \/ BotExecute
    \/ BotRecord
    \/ BotNextMarket
    \/ BotCheckResting
    \/ BotSleep
    \/ BotStop
    \/ BotTrip

InitBot ==
    /\ RealArithmetic
    /\ RiskInit
    /\ settings = DefaultSettings
    /\ PaperFields
    /\ order_ttl = BotTtl
    /\ SizerIdle
    /\ ptc = PtcIdle
    /\ bot = Bot("init")

SpecBot == InitBot /\ [][BotNext]_vars

\* The paper trader when check_resting_orders keeps being called and the
\* clock keeps moving (the orchestrator's loop calls it in _tick, once per
\* tick_interval_seconds), with the orders of one price and size.
LiveInputs ==
    { in \in ExecuteInputs : in[1].suggested_price = R(2, 5) /\ in[2] = RInt(12) }

LiveExecute == \E in \in LiveInputs, ob \in Books : Execute(in[1], in[2], ob) /\ UNCHANGED <<riskVars, restVars>>
LiveCheck ==
    \E obs \in OrderbookMaps(PaperTokens) : CheckRestingOrders(obs) /\ UNCHANGED <<riskVars, restVars>>
\* The call that must keep coming is the least helpful one: no snapshot.
LiveCheckBare == CheckRestingOrders(<<>>) /\ UNCHANGED <<riskVars, restVars>>
LiveClock == AdvanceClock /\ UNCHANGED <<riskVars, restVars>>

PaperLiveNext == LiveExecute \/ LiveCheck \/ LiveClock

SpecPaperLive ==
    /\ InitPaper
    /\ [][PaperLiveNext]_vars
    /\ WF_vars(LiveCheckBare)
    /\ WF_vars(LiveClock)

(***************************************************************************)
(* The paper trader under float arithmetic                                 *)
(***************************************************************************)
\* A Python float has 53 significant bits; the model rounds to MantDig bits,
\* which keeps every intermediate integer within TLC's range.  The inputs are
\* floats: the literals 0.4 and 0.6 are the floats nearest to 2/5 and 3/5.
MantDig == 9
FloatBalances == {RInt(7), RInt(11)}
FloatSlippage == {Zero}

FlSignal(signal) == [signal EXCEPT !.suggested_price = Fl(@)]
FlLevels(levels) == [i \in DOMAIN levels |-> Level(Fl(levels[i][1]), Fl(levels[i][2]))]
FlBook(orderbook) == Book(FlLevels(orderbook.bids), FlLevels(orderbook.asks))
FlOrderbooks(orderbooks) == [t \in DOMAIN orderbooks |-> FlBook(orderbooks[t])]

FloatNext ==
    \/ \E in \in ExecuteInputs, ob \in Books :
           Execute(FlSignal(in[1]), Fl(in[2]), FlBook(ob)) /\ UNCHANGED <<riskVars, restVars>>
    \/ \E obs \in OrderbookMaps(PaperTokens) :
           CheckRestingOrders(FlOrderbooks(obs)) /\ UNCHANGED <<riskVars, restVars>>
    \/ AdvanceClock /\ UNCHANGED <<riskVars, restVars>>

InitFloat ==
    /\ mant_dig = MantDig
    /\ RiskInit
    /\ settings = DefaultSettings
    /\ balance \in FloatBalances
    /\ initial_balance = balance
    /\ slippage_bps \in FloatSlippage
    /\ order_ttl \in TtlSet
    /\ PaperEmpty
    /\ SizerIdle
    /\ CallerInit

SpecFloat == InitFloat /\ [][FloatNext]_vars

\* The sizing functions of risk/kelly.py on their own.
KellyNext ==
    \/ \E b \in KellyOdds : KellyCriterion(b) /\ UNCHANGED <<riskVars, paperVars, callerVars, mant_dig>>
    \/ \E f \in KellyFractions, k \in MaxKellys, m \in MaxPositions :
           PositionSize(f, k, m) /\ UNCHANGED <<riskVars, paperVars, callerVars, mant_dig>>

InitKelly ==
    RealArithmetic /\ RiskInit /\ settings = DefaultSettings /\ PaperInit /\ KellyInit /\ CallerInit

SpecKelly == InitKelly /\ [][KellyNext]_vars

(***************************************************************************)
(* Properties                                                              *)
(***************************************************************************)
Range(q) == { q[i] : i \in DOMAIN q }
Applied(a) == a.fill.status \in {"filled", "partial"}
Attempts == Range(paperCall.attempts)
AllOrders == Range(resting_orders) \cup Range(filled_orders)
InBounds(o) == RLe(Zero, o.filled_quantity) /\ RLe(o.filled_quantity, o.quantity)

\* C1: the kill switch is one-way: no step of the risk manager takes
\* is_killed from true to false.
C1_KillSwitchOneWay == [][kill_switch => kill_switch']_vars

\* A later call (here reset_daily) was made with the switch already set, and
\* the switch is still set.
C1_Witness ==
    /\ kill_switch
    /\ riskCall.was_killed
    /\ riskCall.op \in {"reset_daily", "record_trade", "set_balance"}

\* C2: with the kill switch set, pre_trade_check returns false and
\* calculate_position_size returns 0 for every signal, and neither call
\* changes the balance, the peak balance, the daily P&L or the loss streak.
C2_KilledBlocksTrading ==
    [][(kill_switch /\ riskCall'.op \in {"pre_trade_check", "calculate_position_size"})
       => /\ riskCall'.op = "pre_trade_check" => ~riskCall'.ok
          /\ riskCall'.op = "calculate_position_size" => riskCall'.size = Zero
          /\ UNCHANGED <<current_balance, peak_balance, daily_pnl, consecutive_losses>>]_vars

\* pre_trade_check was called with the switch set, in a state whose three
\* triggers are all safe, and returned false.
C2_Witness ==
    /\ riskCall.op = "pre_trade_check"
    /\ riskCall.was_killed
    /\ ~riskCall.ok
    /\ RGt(current_balance, Zero)
    /\ drawdown_safe(peak_balance, current_balance, settings)
    /\ daily_loss_safe(daily_pnl, settings)
    /\ consecutive_losses_safe(consecutive_losses, settings)

\* C3: quantity conservation: every order has 0 <= filled_quantity <=
\* quantity, no step lowers an order's filled_quantity, and every incremental
\* fill is at most the quantity the order handed to _try_fill had left.
C3_QuantityConserved ==
    [][/\ \A o \in AllOrders' : InBounds(o)
       /\ \A o \in AllOrders : \A o2 \in AllOrders' :
              o2.order_id = o.order_id => RGe(o2.filled_quantity, o.filled_quantity)
       /\ \A a \in Attempts' :
              RLe(Zero, a.fill.filled_qty) /\ RLe(a.fill.filled_qty, a.order.quantity)]_vars

\* A resting order that was partly filled before got a further fill from
\* check_resting_orders and still is not complete.
C3_Witness ==
    /\ paperCall.op = "check_resting_orders"
    /\ \E o \in Range(resting_orders) : \E a \in Attempts :
           /\ a.order.order_id = o.order_id
           /\ Applied(a)
           /\ RLt(a.fill.filled_qty, o.filled_quantity)
           /\ RLt(o.filled_quantity, o.quantity)

\* C4: every order in the filled-order history, and every order whose
\* status is filled, has filled_quantity equal to its quantity.
C4_FilledMeansFull ==
    /\ \A o \in Range(filled_orders) : o.filled_quantity = o.quantity
    /\ \A o \in AllOrders : o.status = "filled" => o.filled_quantity = o.quantity

\* C5: for every instrument cost_basis = |quantity| * avg_entry_price.
C5_CostBasis ==
    \A t \in DOMAIN positions :
        positions[t].cost_basis = RMul(RAbs(positions[t].quantity), positions[t].avg_entry_price)

\* C6 as stated: with slippage_bps > 0 every Buy fill has avg_fill_price >=
\* the order's limit price and every Sell fill has avg_fill_price <= it,
\* whatever the prices of the marketable levels.
C6_SlippageBeyondLimit ==
    \A a \in Attempts :
        (Applied(a) /\ RGt(slippage_bps, Zero))
        => /\ a.order.side = "BUY" => RGe(a.fill.avg_fill_price, a.order.price)
           /\ a.order.side = "SELL" => RLe(a.fill.avg_fill_price, a.order.price)

AtLimit(a) == \A i \in DOMAIN a.marketable : a.marketable[i][1] = a.order.price

\* C6 as amended: with slippage_bps > 0, a Buy fill whose marketable levels
\* are all priced exactly at the limit has avg_fill_price >= the limit, and a
\* Sell fill whose marketable levels are all priced at the limit has
\* avg_fill_price <= the limit.
C6_SlippageAtLimit ==
    \A a \in Attempts :
        (Applied(a) /\ RGt(slippage_bps, Zero) /\ AtLimit(a))
        => /\ a.order.side = "BUY" => RGe(a.fill.avg_fill_price, a.order.price)
           /\ a.order.side = "SELL" => RLe(a.fill.avg_fill_price, a.order.price)

\* A Sell filled at a level priced at its limit, below the limit after slippage.
C6_Witness ==
    /\ RGt(slippage_bps, Zero)
    /\ \E a \in Attempts :
           /\ Applied(a) /\ AtLimit(a) /\ a.order.side = "SELL"
           /\ RLt(a.fill.avg_fill_price, a.order.price)

\* C7: every fill with status filled or partial changes the cash balance by
\* exactly filled_qty * avg_fill_price of its FillResult, down for a Buy and
\* up for a Sell.
C7_BalanceMovesByFill ==
    \A a \in Attempts :
        Applied(a)
        => /\ a.order.side = "BUY" =>
                a.bal_after = RSub(a.bal_before, RMul(a.fill.filled_qty, a.fill.avg_fill_price))
           /\ a.order.side = "SELL" =>
                a.bal_after = RAdd(a.bal_before, RMul(a.fill.filled_qty, a.fill.avg_fill_price))

\* C8: a Sell of s <= position quantity on a long position at price p
\* realizes s * (p - avg_entry_price), lowers the quantity by s and leaves
\* avg_entry_price as it was.
C8_SellWithinLong ==
    \A a \in Attempts :
        (/\ Applied(a) /\ a.order.side = "SELL"
         /\ RGt(a.pos_before.quantity, Zero)
         /\ RLe(a.fill.filled_qty, a.pos_before.quantity))
        => /\ a.fill.realized_pnl =
                RMul(a.fill.filled_qty,
                     RSub(a.fill.avg_fill_price, a.pos_before.avg_entry_price))
           /\ a.pos_after.realized_pnl = RAdd(a.pos_before.realized_pnl, a.fill.realized_pnl)
           /\ a.pos_after.quantity = RSub(a.pos_before.quantity, a.fill.filled_qty)
           /\ a.pos_after.avg_entry_price = a.pos_before.avg_entry_price

\* A Sell of part of a long position, at a price other than the entry price.
C8_Witness ==
    \E a \in Attempts :
        /\ Applied(a) /\ a.order.side = "SELL"
        /\ RGt(a.pos_before.quantity, Zero)
        /\ RLt(a.fill.filled_qty, a.pos_before.quantity)
        /\ a.fill.realized_pnl # Zero

\* C9: after Buy fills q_i @ p_i only, applied to a position that started
\* flat, quantity = sum(q_i) and avg_entry_price = sum(q_i * p_i) / sum(q_i).
C9_WeightedEntry ==
    \A t \in DOMAIN buys :
        (buys[t].pure /\ buys[t].count >= 1)
        => /\ positions[t].quantity = buys[t].qty
           /\ positions[t].avg_entry_price = RDiv(buys[t].cost, buys[t].qty)

\* Two or more Buy fills at different prices.
C9_Witness ==
    \E t \in DOMAIN buys :
        /\ buys[t].pure /\ buys[t].count >= 2
        /\ \E a \in Attempts :
               /\ Applied(a) /\ a.order.token_id = t
               /\ a.fill.avg_fill_price # positions[t].avg_entry_price

Rejected(call) == call.op = "execute" /\ call.fills[1].status = "rejected"

\* C10: execute returns rejected whenever the signal's price is <= 0 or the
\* size is <= 0, and an execute that returns rejected leaves the balance, the
\* positions, the resting set and the filled history as they were.
C10_RejectedNoEffect ==
    [][paperCall'.op = "execute"
       => /\ (RLe(paperCall'.price, Zero) \/ RLe(paperCall'.size_usd, Zero))
                => Rejected(paperCall')
          /\ Rejected(paperCall')
                => UNCHANGED <<balance, positions, resting_orders, filled_orders,
                               total_realized_pnl>>]_vars

\* A Buy rejected by _try_fill because the balance cannot fund it, while a
\* position is held.
C10_Witness ==
    /\ Rejected(paperCall)
    /\ Len(paperCall.attempts) = 1
    /\ paperCall.attempts[1].order.side = "BUY"
    /\ DOMAIN positions # {}

RECURSIVE Depth(_)
Depth(levels) ==
    IF levels = <<>> THEN Zero ELSE RAdd(Head(levels)[2], Depth(Tail(levels)))

\* The balance pays for min(Q, D) at the walk's average price after slippage
\* (a Sell needs no balance).
SufficientBalance(a) ==
    \/ a.order.side = "SELL"
    \/ RLe(Depth(a.marketable), Zero)
    \/ LET w == walk_levels(a.marketable, a.order.quantity, Zero, Zero)
       IN  RLe(RMul(w.filled_qty,
                    apply_slippage(a.order.side, RDiv(w.total_cost, w.filled_qty),
                                   slippage_bps)),
               a.bal_before)

\* C11: an order of quantity Q against marketable levels of total size D,
\* with sufficient balance, fills min(Q, D); its status is filled when
\* D >= Q, partial when 0 < D < Q and resting when D = 0.
C11_FillsMinOfQuantityAndDepth ==
    \A a \in Attempts :
        SufficientBalance(a)
        => LET Q == a.order.quantity
               D == Depth(a.marketable)
           IN  /\ a.fill.filled_qty = RMin(Q, D)
               /\ RGe(D, Q) => a.fill.status = "filled"
               /\ (RGt(D, Zero) /\ RLt(D, Q)) => a.fill.status = "partial"
               /\ D = Zero => a.fill.status = "resting"

\* A Sell that swept two levels and was still left partly unfilled.
C11_Witness ==
    \E a \in Attempts :
        /\ a.order.side = "SELL"
        /\ Len(a.marketable) = 2
        /\ a.fill.status = "partial"
        /\ RLt(Depth(a.marketable), a.order.quantity)
        /\ a.fill.filled_qty = Depth(a.marketable)

Last(q) == q[Len(q)]

\* C12: when execute finds no marketable liquidity it returns resting with
\* filled_qty 0, appends exactly one order with status open and the full
\* quantity to the resting set, and leaves the balance, the positions and the
\* filled history as they were.
C12_RestsWithoutLiquidity ==
    [][(/\ paperCall' # paperCall
        /\ paperCall'.op = "execute"
        /\ Len(paperCall'.attempts) = 1
        /\ Depth(paperCall'.attempts[1].marketable) = Zero)
       => /\ paperCall'.fills[1].status = "resting"
          /\ paperCall'.fills[1].filled_qty = Zero
          /\ Len(resting_orders') = Len(resting_orders) + 1
          /\ SubSeq(resting_orders', 1, Len(resting_orders)) = resting_orders
          /\ Last(resting_orders').order_id = paperCall'.fills[1].order_id
          /\ Last(resting_orders').status = "open"
          /\ Last(resting_orders').quantity = RDiv(paperCall'.size_usd, paperCall'.price)
          /\ Last(resting_orders').filled_quantity = Zero
          /\ UNCHANGED <<balance, positions, filled_orders>>]_vars

\* execute returned resting for an order that met levels on its side of the
\* limit with nothing in them, and the order is the last of the resting set,
\* behind an earlier one.
C12_Witness ==
    /\ paperCall.op = "execute"
    /\ paperCall.fills[1].status = "resting"
    /\ Len(paperCall.attempts[1].marketable) > 0
    /\ Len(resting_orders) = 2
    /\ Last(resting_orders).order_id = paperCall.fills[1].order_id
    /\ Last(resting_orders).status = "open"

\* A step of check_resting_orders (execute records another op, and the clock
\* stands still during a call).
CheckStep == paperCall'.op = "check_resting_orders" /\ now' = now

Unexpired(o) == now - o.created_at <= o.ttl_seconds
WithId(orders, id) == { o \in Range(orders) : o.order_id = id }

\* What the call filled of order o: the filled_qty of its _try_fill, if any.
Gain(call, o) ==
    LET mine == { a \in Range(call.attempts) : a.order.order_id = o.order_id }
    IN  IF mine = {} THEN Zero ELSE (CHOOSE a \in mine : TRUE).fill.filled_qty

\* C13: in check_resting_orders an unexpired order whose cumulative
\* filled_quantity reaches its quantity gets status filled, is appended to the
\* filled history and is no longer in the resting set; an unexpired order
\* still short of its quantity stays in the resting set.
C13_FilledLeavesRestingSet ==
    [][CheckStep
       => /\ SubSeq(filled_orders', 1, Len(filled_orders)) = filled_orders
          /\ \A o \in Range(resting_orders) :
                Unexpired(o)
                => LET cum == RAdd(o.filled_quantity, Gain(paperCall', o))
                   IN  IF RGe(cum, o.quantity)
                       THEN /\ \E i \in (Len(filled_orders) + 1)..Len(filled_orders') :
                                  /\ filled_orders'[i].order_id = o.order_id
                                  /\ filled_orders'[i].status = "filled"
                                  /\ filled_orders'[i].filled_quantity = cum
                            /\ WithId(resting_orders', o.order_id) = {}
                       ELSE /\ \E r \in WithId(resting_orders', o.order_id) :
                                  r.filled_quantity = cum
                            /\ WithId(filled_orders', o.order_id) = {}]_vars

\* One call completed an order that was partly filled before and left
\* another, which it also tried, in the resting set.
C13_Witness ==
    /\ paperCall.op = "check_resting_orders"
    /\ \E a \in Attempts : \E f \in WithId(filled_orders, a.order.order_id) :
           /\ f.status = "filled"
           /\ RGt(a.fill.filled_qty, Zero)
           /\ RLt(a.fill.filled_qty, f.filled_quantity)
    /\ \E a \in Attempts : WithId(resting_orders, a.order.order_id) # {}

\* C14: expiry takes precedence over matching: in check_resting_orders an
\* order with now - created_at > ttl gets status expired, leaves the resting
\* set, is not tried against the book, produces no FillResult and so changes
\* neither the balance nor the positions; an order with now - created_at <=
\* ttl is not expired.
C14_ExpiryBeforeMatching ==
    [][CheckStep
       => /\ \A o \in Range(resting_orders) :
                IF now - o.created_at > o.ttl_seconds
                THEN /\ \E e \in WithId(paperCall'.expired, o.order_id) :
                            e.status = "expired"
                     /\ WithId(resting_orders', o.order_id) = {}
                     /\ WithId(filled_orders', o.order_id) = {}
                     /\ \A a \in Range(paperCall'.attempts) : a.order.order_id # o.order_id
                     /\ \A f \in Range(paperCall'.fills) : f.order_id # o.order_id
                ELSE WithId(paperCall'.expired, o.order_id) = {}
          /\ (\A o \in Range(resting_orders) : now - o.created_at > o.ttl_seconds)
                => UNCHANGED <<balance, positions>>]_vars

\* An order expired although the snapshot supplied for its token had
\* liquidity at its limit, while a younger order stayed in the resting set.
C14_Witness ==
    /\ paperCall.op = "check_resting_orders"
    /\ \E e \in Range(paperCall.expired) :
           /\ e.token_id \in DOMAIN paperCall.orderbooks
           /\ RGt(Depth(marketable_levels(e.side, e.price,
                                          paperCall.orderbooks[e.token_id])), Zero)
    /\ resting_orders # <<>>

OrderIds == 1..MaxExecutes
Resting(k) == WithId(resting_orders, k) # {}

\* The clock of the model can pass the order's deadline.
Expirable(k) == \A o \in WithId(resting_orders, k) : o.created_at + o.ttl_seconds < MaxTime

\* C16: every order accepted into the resting set eventually leaves it,
\* filled or expired, when check_resting_orders keeps being called and time
\* advances beyond the order's ttl.
C16_RestingOrdersTerminate ==
    \A k \in OrderIds : (Resting(k) /\ Expirable(k)) ~> ~Resting(k)

\* An order left the resting set by expiry, never having found liquidity.
C16_Witness ==
    /\ paperCall.op = "check_resting_orders"
    /\ \E e \in Range(paperCall.expired) :
           /\ e.filled_quantity = Zero
           /\ ~Resting(e.order_id)
           /\ WithId(filled_orders, e.order_id) = {}

\* C17: check_drawdown returns false and sets the kill switch if and only
\* if peak_balance > 0 and (peak_balance - current_balance) / peak_balance
\* >= max_drawdown_pct; otherwise it returns true and leaves the kill switch
\* as it was.
C17_DrawdownCheck ==
    [][riskCall'.op = "check_drawdown"
       => LET trip == /\ RGt(peak_balance, Zero)
                      /\ RGe(RDiv(RSub(peak_balance, current_balance), peak_balance),
                             settings.max_drawdown_pct)
          IN  /\ riskCall'.ok = ~trip
              /\ trip => kill_switch'
              /\ ~trip => kill_switch' = kill_switch
              /\ UNCHANGED <<peak_balance, current_balance>>]_vars

\* check_drawdown found the drawdown exactly at the limit and set the switch.
C17_Witness ==
    /\ riskCall.op = "check_drawdown"
    /\ ~riskCall.ok
    /\ ~riskCall.was_killed
    /\ kill_switch
    /\ RGt(peak_balance, Zero)
    /\ RDiv(RSub(peak_balance, current_balance), peak_balance) = settings.max_drawdown_pct

\* C18 as stated: for every daily_pnl and every daily_loss_limit_usd >= 0,
\* a limit of 0 included, check_daily_loss returns false and sets the kill
\* switch if and only if daily_pnl <= -daily_loss_limit_usd.
C18_DailyLossCheck ==
    [][riskCall'.op = "check_daily_loss"
       => LET trip == RLe(daily_pnl, RNeg(settings.daily_loss_limit_usd))
          IN  /\ riskCall'.ok = ~trip
              /\ trip => kill_switch'
              /\ ~trip => kill_switch' = kill_switch]_vars

\* C18 as amended: check_daily_loss returns false and sets the kill switch
\* if and only if daily_pnl # 0 and daily_pnl <= -daily_loss_limit_usd; for
\* a limit > 0 that is if and only if daily_pnl <= -daily_loss_limit_usd,
\* and with a limit of 0 and daily_pnl = 0 it returns true and leaves the
\* switch as it was.
C18_DailyLossCheckNonZero ==
    [][riskCall'.op = "check_daily_loss"
       => LET trip == /\ daily_pnl # Zero
                      /\ RLe(daily_pnl, RNeg(settings.daily_loss_limit_usd))
          IN  /\ riskCall'.ok = ~trip
              /\ trip => kill_switch'
              /\ ~trip => kill_switch' = kill_switch
              /\ RGt(settings.daily_loss_limit_usd, Zero)
                    => (trip <=> RLe(daily_pnl, RNeg(settings.daily_loss_limit_usd)))
              /\ UNCHANGED daily_pnl]_vars

\* check_daily_loss returned false with the day's loss exactly at a positive
\* limit.
C18_Witness ==
    /\ riskCall.op = "check_daily_loss"
    /\ ~riskCall.ok
    /\ kill_switch
    /\ RGt(settings.daily_loss_limit_usd, Zero)
    /\ daily_pnl = RNeg(settings.daily_loss_limit_usd)

PositiveLimits ==
    /\ RGt(settings.max_drawdown_pct, Zero)
    /\ RGt(settings.daily_loss_limit_usd, Zero)
    /\ settings.max_consecutive_losses > 0

\* C19: with positive limits, when record_trade has returned and the
\* drawdown (peak_balance > 0) is >= max_drawdown_pct, or daily_pnl <=
\* -daily_loss_limit_usd, or consecutive_losses >= max_consecutive_losses,
\* the kill switch is set.
C19_TradeCanTrip ==
    (/\ riskCall.op = "record_trade"
     /\ PositiveLimits
     /\ \/ /\ RGt(peak_balance, Zero)
           /\ RGe(RDiv(RSub(peak_balance, current_balance), peak_balance),
                  settings.max_drawdown_pct)
        \/ RLe(daily_pnl, RNeg(settings.daily_loss_limit_usd))
        \/ consecutive_losses >= settings.max_consecutive_losses)
    => kill_switch

\* A record_trade call set the switch by the loss streak alone.
C19_Witness ==
    /\ riskCall.op = "record_trade"
    /\ PositiveLimits
    /\ ~riskCall.was_killed
    /\ kill_switch
    /\ consecutive_losses >= settings.max_consecutive_losses
    /\ daily_loss_safe(daily_pnl, settings)
    /\ drawdown_safe(peak_balance, current_balance, settings)

\* The number of negative P&Ls at the end of a log.
RECURSIVE TrailingLosses(_)
TrailingLosses(log) ==
    IF log = <<>> \/ RGe(Last(log), Zero) THEN 0
    ELSE 1 + TrailingLosses(SubSeq(log, 1, Len(log) - 1))

StreakCounted ==
    consecutive_losses =
        TrailingLosses(SubSeq(trade_log, trades_at_reset + 1, Len(trade_log)))

\* C20: record_trade with P&L x adds x to daily_pnl and to current_balance
\* and sets consecutive_losses to its previous value + 1 when x < 0 and to 0
\* when x >= 0; consecutive_losses always equals the number of trailing
\* negative-P&L trades since the last non-negative trade or reset_daily.
C20_RecordTradeCounters ==
    [][/\ trade_log' # trade_log
          => LET x == Last(trade_log')
             IN  /\ daily_pnl' = RAdd(daily_pnl, x)
                 /\ current_balance' = RAdd(current_balance, x)
                 /\ consecutive_losses' =
                        IF RLt(x, Zero) THEN consecutive_losses + 1 ELSE 0
       /\ StreakCounted']_vars

\* A streak of two losses that began after a reset_daily that followed a loss.
C20_Witness ==
    /\ riskCall.op = "record_trade"
    /\ consecutive_losses = 2
    /\ trades_at_reset = 1
    /\ Len(trade_log) = 3
    /\ RLt(trade_log[1], Zero)

\* C21: reset_daily sets daily_pnl to 0 and consecutive_losses to 0 and
\* leaves the kill switch, current_balance, peak_balance and the trade log
\* unchanged.
C21_ResetDailyFrame ==
    [][riskCall'.op = "reset_daily"
          => /\ daily_pnl' = Zero
             /\ consecutive_losses' = 0
             /\ UNCHANGED <<kill_switch, current_balance, peak_balance, trade_log>>]_vars

\* reset_daily after two losses that tripped the switch and left the balance
\* under its peak.
C21_Witness ==
    /\ riskCall.op = "reset_daily"
    /\ kill_switch
    /\ trades_at_reset = 2
    /\ Len(trade_log) = 2
    /\ RLt(trade_log[1], Zero)
    /\ RLt(trade_log[2], Zero)
    /\ RLt(current_balance, peak_balance)
    /\ daily_pnl = Zero
    /\ consecutive_losses = 0

\* C22: in every reachable state of the risk manager and for every signal,
\* calculate_position_size returns a value in [0, max_position_size_usd].
C22_SizeInRange ==
    riskCall.op = "calculate_position_size"
        => /\ RLe(Zero, riskCall.size)
           /\ RLe(riskCall.size, settings.max_position_size_usd)

\* Two calls of position_size in a row, the second with parameter x lowered
\* or equal and the other two parameters the same.
BothSized == kellyPrev.op = "position_size" /\ kellyCall.op = "position_size"
LoweredKellyFraction ==
    /\ RLe(kellyCall.kelly_fraction, kellyPrev.kelly_fraction)
    /\ kellyCall.max_kelly = kellyPrev.max_kelly
    /\ kellyCall.max_position_usd = kellyPrev.max_position_usd
LoweredMaxKelly ==
    /\ kellyCall.kelly_fraction = kellyPrev.kelly_fraction
    /\ RLe(kellyCall.max_kelly, kellyPrev.max_kelly)
    /\ kellyCall.max_position_usd = kellyPrev.max_position_usd
LoweredMaxPosition ==
    /\ kellyCall.kelly_fraction = kellyPrev.kelly_fraction
    /\ kellyCall.max_kelly = kellyPrev.max_kelly
    /\ RLe(kellyCall.max_position_usd, kellyPrev.max_position_usd)

\* C23: for a fixed non-negative bankroll, win probability and odds,
\* position_size does not increase when kelly_fraction is lowered, nor when
\* max_kelly is lowered, nor when max_position_usd is lowered, the other two
\* parameters fixed.
C23_SizeMonotone ==
    (/\ BothSized
     /\ RGe(kellyIn.bankroll, Zero)
     /\ LoweredKellyFraction \/ LoweredMaxKelly \/ LoweredMaxPosition)
        => RLe(kellyCall.result, kellyPrev.result)

\* A lower kelly_fraction gave a strictly smaller, still positive size, with
\* neither cap reached.
C23_Witness ==
    /\ BothSized
    /\ RGt(kellyIn.bankroll, Zero)
    /\ LoweredKellyFraction
    /\ RLt(Zero, kellyCall.result)
    /\ RLt(kellyCall.result, kellyPrev.result)
    /\ RLt(kellyPrev.result, kellyPrev.max_position_usd)

\* C24: for a fixed win probability p, kelly_criterion(p, b) is
\* non-decreasing in b over the odds the function accepts (b > 0).
C24_KellyMonotoneInOdds ==
    (/\ kellyPrev.op = "kelly_criterion"
     /\ kellyCall.op = "kelly_criterion"
     /\ RGt(kellyPrev.odds, Zero)
     /\ RLe(kellyPrev.odds, kellyCall.odds))
        => RLe(kellyPrev.result, kellyCall.result)

\* Better odds turned a no-bet fraction into a positive one.
C24_Witness ==
    /\ kellyPrev.op = "kelly_criterion"
    /\ kellyCall.op = "kelly_criterion"
    /\ RLt(Zero, kellyPrev.odds)
    /\ RLt(kellyPrev.odds, kellyCall.odds)
    /\ RLt(kellyPrev.result, Zero)
    /\ RLt(Zero, kellyCall.result)

\* The size the claim gives for a signal in the current state.
ClaimedSize(signal) ==
    LET price == signal.suggested_price
        admitted == pre_trade_check(kill_switch, peak_balance, current_balance, daily_pnl,
                                    consecutive_losses, settings, signal).ok
        b == RSub(RDiv(One, price), One)
        f == kelly_criterion(signal.confidence, b)
    IN  IF ~admitted \/ RLe(price, Zero) \/ RGe(price, One) THEN Zero
        ELSE IF RLe(f, Zero) THEN Zero
        ELSE RMin(RMul(current_balance,
                       RMin(RMul(f, settings.kelly_fraction), settings.max_kelly_fraction)),
                  settings.max_position_size_usd)

\* C25: calculate_position_size returns 0 when pre_trade_check fails or the
\* signal price is outside (0,1); otherwise, with b = 1/price - 1 and
\* f = kelly_criterion(confidence, b), it returns 0 if f <= 0 and else
\* min(current_balance * min(f * kelly_fraction, max_kelly_fraction),
\* max_position_size_usd).
C25_SizeFormula ==
    [][riskCall'.op = "calculate_position_size"
          => riskCall'.size = ClaimedSize(riskCall'.signal)]_vars

\* A Kelly fraction f = 7/8 above max_kelly_fraction 1/2: scaled first it is
\* 7/32, under the cap, and the size is 100 * 7/32; capped first it would
\* have been 100 * 1/8.
C25_Witness ==
    /\ riskCall.op = "calculate_position_size"
    /\ riskCall.signal.confidence = R(9, 10)
    /\ current_balance = RInt(100)
    /\ riskCall.size = R(175, 8)
    /\ ~kill_switch

\* C26: with another thread free to call trigger_kill_switch at any point,
\* pre_trade_check never returns true in a state where the kill switch is
\* already set.
C26_NoAdmissionWhenKilled ==
    (ptc.pc = "returned" /\ ptc.ok) => ~ptc.killed_at_return

\* C27: in paper mode the realized P&L of every fill with nonzero realized
\* P&L, from execute or from check_resting_orders, is reported to
\* record_trade exactly once, so that daily_pnl and the balance of the risk
\* manager reflect all realized P&L of the paper trader.  Stated whenever no
\* report is pending between execute and record_trade.
C27_RealizedPnlReported ==
    bot.pc \notin {"none", "record"}
        => /\ trade_log = bot.realized
           /\ daily_pnl = total_realized_pnl

\* A tick: the step from the end of the market loop over
\* check_resting_orders to the sleep.
TickCheck == bot.pc = "market" /\ bot'.pc = "sleep"

\* The order is handed to _try_fill in the call just made, against the
\* snapshot fetched for its token in this tick.
Represented(o) ==
    /\ o.token_id \in DOMAIN paperCall'.orderbooks
    /\ paperCall'.orderbooks[o.token_id] = bot.fetched[o.token_id]
    /\ \E a \in Range(paperCall'.attempts) : a.order.order_id = o.order_id

\* C28: on every tick, every still-open resting order whose instrument's
\* book was fetched during that tick is re-presented to the matching engine
\* against that snapshot, whichever market the instrument belongs to.
C28_FetchedOrdersRepresented ==
    [][TickCheck
          => \A o \in Range(resting_orders) :
                 (Unexpired(o) /\ o.token_id \in DOMAIN bot.fetched) => Represented(o)]_vars

\* C29: the loop starts no tick once the kill switch is set: with the switch
\* set the loop test leads out of the loop (before the first tick when it was
\* set before run(), after the current tick when it tripped during one), and
\* a stopped loop stays stopped.
C29_NoTickWhenKilled ==
    [][/\ (bot.pc = "while" /\ bot'.pc = "market") => ~kill_switch
       /\ (bot.pc = "while" /\ kill_switch /\ bot' # bot) => bot'.pc = "stopped"
       /\ bot.pc = "stopped" => bot'.pc = "stopped"]_vars

\* record_trade tripped the switch during a tick, the tick went on to its
\* end, and the loop test then left the loop although _running was still set.
C29_Witness ==
    /\ bot.pc = "stopped"
    /\ bot.running
    /\ kill_switch
    /\ riskCall.op = "record_trade"
    /\ ~riskCall.was_killed
    /\ paperCall.op = "check_resting_orders"

\* C30: a Buy that brings a short position back to or through zero realizes
\* covered quantity * (short entry price - cover price) on the position and
\* in the total (the realized P&L the fill returns); a Sell that opens or
\* extends a short realizes nothing.
C30_ShortCoverRealizes ==
    \A a \in Attempts :
        /\ (/\ Applied(a) /\ a.order.side = "BUY"
            /\ RLt(a.pos_before.quantity, Zero)
            /\ RGe(a.fill.filled_qty, RNeg(a.pos_before.quantity)))
           => LET covered == RNeg(a.pos_before.quantity)
                  gain == RMul(covered, RSub(a.pos_before.avg_entry_price,
                                             a.fill.avg_fill_price))
              IN  /\ a.pos_after.realized_pnl = RAdd(a.pos_before.realized_pnl, gain)
                  /\ a.fill.realized_pnl = gain
        /\ (/\ Applied(a) /\ a.order.side = "SELL"
            /\ RLe(a.pos_before.quantity, Zero))
           => /\ a.pos_after.realized_pnl = a.pos_before.realized_pnl
              /\ a.fill.realized_pnl = Zero

\* C31: a Sell applied while the position quantity is <= 0 credits the
\* balance by qty * price, sets avg_entry_price to the fill price, lowers the
\* signed quantity by qty, sets cost_basis to |quantity| * avg_entry_price and
\* returns realized P&L 0, the position's realized P&L staying as it was.
C31_SellWithoutLong ==
    \A a \in Attempts :
        (/\ Applied(a) /\ a.order.side = "SELL"
         /\ RLe(a.pos_before.quantity, Zero))
        => /\ a.bal_after =
                RAdd(a.bal_before, RMul(a.fill.filled_qty, a.fill.avg_fill_price))
           /\ a.pos_after.avg_entry_price = a.fill.avg_fill_price
           /\ a.pos_after.quantity = RSub(a.pos_before.quantity, a.fill.filled_qty)
           /\ a.pos_after.cost_basis =
                RMul(RAbs(a.pos_after.quantity), a.pos_after.avg_entry_price)
           /\ a.fill.realized_pnl = Zero
           /\ a.pos_after.realized_pnl = a.pos_before.realized_pnl

\* A Sell that enlarges a short position, filled at a price other than the
\* entry price the position had.
C31_Witness ==
    \E a \in Attempts :
        /\ Applied(a) /\ a.order.side = "SELL"
        /\ RLt(a.pos_before.quantity, Zero)
        /\ a.fill.avg_fill_price # a.pos_before.avg_entry_price
        /\ RGt(a.fill.filled_qty, Zero)

\* C32: with an initial balance >= 0, positive level prices, non-negative
\* level sizes and 0 <= slippage_bps < 10000, the cash balance is >= 0 after
\* every execute and check_resting_orders call, and no Buy fill is debited
\* more than the balance it found.
C32_BalanceNonNegative ==
    /\ RGe(balance, Zero)
    /\ \A a \in Attempts :
           (Applied(a) /\ a.order.side = "BUY") => RGe(a.bal_after, Zero)

\* C33: the status of a resting order agrees with its fill: every order in
\* the resting set with status open has filled_quantity 0 and every order in
\* the resting set with filled_quantity > 0 has status partial.
C33_StatusAgreesWithFill ==
    \A o \in Range(resting_orders) :
        /\ o.status = "open" => o.filled_quantity = Zero
        /\ RGt(o.filled_quantity, Zero) => o.status = "partial"

\* C34: every fill with status filled or partial changes the signed position
\* quantity of its instrument by exactly the filled_qty of its FillResult,
\* up for a Buy and down for a Sell.
C34_PositionMovesByFill ==
    \A a \in Attempts :
        Applied(a)
        => /\ a.order.side = "BUY" =>
                a.pos_after.quantity = RAdd(a.pos_before.quantity, a.fill.filled_qty)
           /\ a.order.side = "SELL" =>
                a.pos_after.quantity = RSub(a.pos_before.quantity, a.fill.filled_qty)

RECURSIVE CostBasisOf(_, _)
CostBasisOf(poss, toks) ==
    IF toks = {} THEN Zero
    ELSE LET t == CHOOSE x \in toks : TRUE
         IN  RAdd(poss[t].cost_basis, CostBasisOf(poss, toks \ {t}))

LongOnly == \A t \in DOMAIN buys : buys[t].long_only
Flat == \A t \in DOMAIN positions : positions[t].quantity = Zero

\* C35: in a run in which no Sell was applied while the position quantity
\* was <= 0, balance + the sum of the positions' cost_basis equals
\* initial_balance + total realized P&L after every operation; with every
\* position flat, balance - initial_balance equals total realized P&L.
C35_LongOnlyIdentity ==
    LongOnly
    => /\ RAdd(balance, CostBasisOf(positions, DOMAIN positions))
              = RAdd(initial_balance, total_realized_pnl)
       /\ Flat => RSub(balance, initial_balance) = total_realized_pnl

\* A long position was bought and sold off entirely, at a loss or a gain.
C35_Witness ==
    /\ LongOnly
    /\ Flat
    /\ total_realized_pnl # Zero
    /\ \E a \in Attempts : Applied(a) /\ a.order.side = "SELL"

\* The part of a fill of qty, walked over the levels best price first, that
\* falls on the level at the given price.
RECURSIVE TakenAt(_, _, _)
TakenAt(levels, qty, price) ==
    IF levels = <<>> THEN Zero
    ELSE LET here == RMin(qty, Head(levels)[2])
         IN  IF Head(levels)[1] = price THEN here
             ELSE TakenAt(Tail(levels), RSub(qty, here), price)

\* The same, summed over the applied attempts of a call on one side of a token.
RECURSIVE TakenBy(_, _, _, _)
TakenBy(attempts, t, side, price) ==
    IF attempts = <<>> THEN Zero
    ELSE LET a == Head(attempts)
             rest == TakenBy(Tail(attempts), t, side, price)
         IN  IF Applied(a) /\ a.order.token_id = t /\ a.order.side = side
             THEN RAdd(TakenAt(a.marketable, a.fill.filled_qty, price), rest)
             ELSE rest

SideLevels(orderbook, side) == IF side = "BUY" THEN orderbook.asks ELSE orderbook.bids

\* C36: in one check_resting_orders call the quantity filled against a price
\* level of an instrument's snapshot, summed over the resting orders on that
\* instrument, does not exceed the size of the level.
C36_DepthNotDoubleSpent ==
    paperCall.op = "check_resting_orders"
    => \A t \in DOMAIN paperCall.orderbooks : \A side \in Sides :
           LET levels == SideLevels(paperCall.orderbooks[t], side)
           IN  \A i \in DOMAIN levels :
                   RLe(TakenBy(paperCall.attempts, t, side, levels[i][1]), levels[i][2])

\* C37: after every sequence of set_balance, record_trade and reset_daily
\* calls peak_balance >= current_balance, no call lowers peak_balance, and the
\* drawdown_pct of the risk report is >= 0.
C37_PeakAboveBalance ==
    [][/\ RGe(peak_balance', current_balance')
       /\ RGe(peak_balance', peak_balance)
       /\ RGe(drawdown_pct(peak_balance', current_balance'), Zero)]_vars

\* A loss was recorded below a peak that a gain had set, and later the
\* balance was set below the peak.
C37_Witness ==
    /\ riskCall.op = "set_balance"
    /\ RGt(peak_balance, current_balance)
    /\ RGt(peak_balance, starting_balance)
    /\ Len(trade_log) >= 2
    /\ RGt(drawdown_pct(peak_balance, current_balance), Zero)

\* C38: the dollar size with which a signal is executed, returned by
\* calculate_position_size or taken from fixed_size_usd, never exceeds the
\* signal's own max_size.
C38_SizeWithinSignalMax ==
    bot.pc = "execute" => RLe(bot.size, bot.signal.max_size)

\* C39: once the kill switch has tripped no further fill is applied: no
\* later step of the orchestrator, whether a new signal or the resting-order
\* check of the tick in which the switch tripped, changes the paper trader's
\* balance or positions.
C39_NoFillAfterTrip ==
    [][kill_switch => (balance' = balance /\ positions' = positions)]_vars

RestingIds == { o.order_id : o \in Range(resting_orders) }
FilledIds == { o.order_id : o \in Range(filled_orders) }
\* The orders created so far that are not resting: filled, expired or never
\* retained.
GoneIds == (1..executes) \ RestingIds

\* C40: after every execute and check_resting_orders call each order of the
\* resting set has status open or partial and filled_quantity < quantity,
\* each order of the filled history has status filled, and no order is in
\* both; an order that has left the resting set never re-enters it, is never
\* handed to _try_fill again, and a filled order's record never changes.
C40_OrderLifecycle ==
    [][/\ \A o \in Range(resting_orders') :
              o.status \in {"open", "partial"} /\ RLt(o.filled_quantity, o.quantity)
       /\ \A o \in Range(filled_orders') : o.status = "filled"
       /\ RestingIds' \cap FilledIds' = {}
       /\ GoneIds \cap RestingIds' = {}
       /\ paperCall' # paperCall => \A a \in Attempts' : a.order.order_id \notin GoneIds
       /\ \A i \in DOMAIN filled_orders :
              i \in DOMAIN filled_orders' /\ filled_orders'[i] = filled_orders[i]]_vars

\* A check_resting_orders call that filled part of a resting order after
\* another order had been filled and had left.
C40_Witness ==
    /\ paperCall.op = "check_resting_orders"
    /\ \E o \in Range(filled_orders) :
           \A a \in Attempts : a.order.order_id # o.order_id
    /\ \E a \in Attempts : Applied(a)
    /\ resting_orders # <<>>

====
